---- MODULE Spec2Model ----
(***************************************************************************)
(* SPEAR engagement coordinator (Scenario) with its platform models       *)
(* (SAMSystem, Fighter).                                                  *)
(*                                                                         *)
(* Numbers of the program are IEEE doubles; the model keeps them as        *)
(* fixed-point integers:                                                   *)
(*   distances, positions, ranges   hectometres     (km      * 10)         *)
(*   times                          deciseconds     (seconds * 10)         *)
(*   speeds                         hectometres/s   (km/s    * 10)         *)
(*   Mach numbers                   tenths of Mach  (Mach    * 10)         *)
(*   angles in radians              milliradians    (rad     * 1000)       *)
(*   angles in degrees              millidegrees    (deg     * 1000)       *)
(*   sines and cosines              thousandths     (value   * 1000)       *)
(* A heading that the program assigns from a number of degrees keeps its   *)
(* numeric value (180 degrees become the heading 180 rad), as in the code. *)
(***************************************************************************)
EXTENDS Integers, Sequences, FiniteSets, TLC

VARIABLES timeStep, timeElapsed, scenarioSams, scenarioFighters, missiles,
          isEngagementComplete,
          scenarioCreated, scenarioMeta, controllerPc, lastResponse,
          cachedITUData, ituLoadCompleted, radar, lastCall,
          manager

\* The fields of the Scenario instance
scenarioVars == <<timeStep, timeElapsed, scenarioSams, scenarioFighters, missiles,
                  isEngagementComplete>>

\* The fields of the SimulationController around it: whether this.scenario is
\* set, this.scenarioMeta, the position of the run() handler and the last
\* request with the status of its response
controllerVars == <<scenarioCreated, scenarioMeta, controllerPc, lastResponse>>

\* The components called on their own: the cached attenuation table of the
\* ituData module, whether a load of it has completed, the Radar instance, and
\* the last call with its outcome; and the browser's SimulationManager, which
\* only the specification of the frontend moves
componentVars == <<cachedITUData, ituLoadCompleted, radar, lastCall, manager>>

vars == <<timeStep, timeElapsed, scenarioSams, scenarioFighters, missiles,
          isEngagementComplete,
          scenarioCreated, scenarioMeta, controllerPc, lastResponse,
          cachedITUData, ituLoadCompleted, radar, lastCall,
          manager>>

(***************************************************************************)
(* Arithmetic of the fixed-point representation                            *)
(***************************************************************************)
Abs(x) == IF x < 0 THEN -x ELSE x

Sign(x) == IF x > 0 THEN 1 ELSE IF x < 0 THEN -1 ELSE 0

\* n / d rounded to the nearest integer (d > 0), halves away from zero
RoundDiv(n, d) == IF n >= 0 THEN (2 * n + d) \div (2 * d)
                            ELSE -((2 * (-n) + d) \div (2 * d))

\* Math.round(n / d) for n >= 0, d > 0: halves round up
MathRound(n, d) == (2 * n + d) \div (2 * d)

\* JavaScript's % : the remainder takes the sign of the dividend
JsRem(a, m) == IF a >= 0 THEN a % m ELSE -((-a) % m)

RECURSIVE CeilSqrtIn(_, _, _)
CeilSqrtIn(n, lo, hi) ==
    IF lo >= hi THEN lo
    ELSE LET mid == (lo + hi) \div 2
         IN  IF mid * mid >= n THEN CeilSqrtIn(n, lo, mid)
                               ELSE CeilSqrtIn(n, mid + 1, hi)

\* Math.sqrt, rounded up: for an integer r, CeilSqrt(n) <= r iff sqrt(n) <= r
CeilSqrt(n) == CeilSqrtIn(n, 0, 46340)

\* Math.PI, Math.PI / 2 and 2 * Math.PI in milliradians
Pi == 3142

HalfPi == Pi \div 2

TwoPi == 2 * Pi

\* Math.sin on [0, Pi] (Bhaskara's rational approximation), in thousandths
SinHalfTurn(x) ==
    LET p   == (x * (Pi - x)) \div 100
        den == 5 * ((Pi * Pi) \div 100) - 4 * p
    IN  RoundDiv(16000 * p, den)

\* Math.sin, in thousandths, of an angle in milliradians
Sin(a) ==
    LET r == a % TwoPi
    IN  IF r <= Pi THEN SinHalfTurn(r) ELSE -SinHalfTurn(r - Pi)

\* Math.cos, in thousandths, of an angle in milliradians
Cos(a) == Sin(a + HalfPi)

\* Math.atan on [0, 1]: z in thousandths, result in milliradians
AtanUnit(z) == (z * ((Pi \div 4) + (273 * (1000 - z)) \div 1000)) \div 1000

\* Math.atan2(dy, dx) in milliradians, in (-Pi, Pi]
Atan2(dy, dx) ==
    LET ax   == Abs(dx)
        ay   == Abs(dy)
        base == IF ax = 0 /\ ay = 0 THEN 0
                ELSE IF ax >= ay THEN AtanUnit(RoundDiv(1000 * ay, ax))
                ELSE HalfPi - AtanUnit(RoundDiv(1000 * ax, ay))
    IN  IF dx >= 0 THEN Sign(dy) * base
        ELSE IF dy >= 0 THEN Pi - base
        ELSE base - Pi

\* Math.sqrt(dx * dx + dy * dy) between two positions
Distance(p, q) ==
    CeilSqrt((p.x - q.x) * (p.x - q.x) + (p.y - q.y) * (p.y - q.y))

(***************************************************************************)
(* Floating-point numbers: the `number` arithmetic of the attenuation      *)
(* table, binary with round-to-nearest-even as in IEEE 754, scaled down to *)
(* MantissaBits significant bits.  A number is m * 2^e with m = 0 or       *)
(* 2^(MantissaBits-1) <= |m| < 2^MantissaBits.                             *)
(***************************************************************************)
MantissaBits == 8

RECURSIVE Pow2(_)
Pow2(k) == IF k <= 0 THEN 1 ELSE 2 * Pow2(k - 1)

FZero == [m |-> 0, e |-> 0]

\* The binary exponent k of the positive rational n / d: the one with
\* 2^(MantissaBits-1) <= (n / d) / 2^k < 2^MantissaBits
RECURSIVE ExponentOf(_, _, _)
ExponentOf(n, d, k) ==
    IF n >= d * Pow2(MantissaBits) THEN ExponentOf(n, 2 * d, k + 1)
    ELSE IF n < d * Pow2(MantissaBits - 1) THEN ExponentOf(2 * n, d, k - 1)
    ELSE k

\* n / d * 2^s rounded to the nearest number, ties to the even mantissa
FRound(n, d, s) ==
    IF n = 0 THEN FZero
    ELSE LET a  == Abs(n)
             k  == ExponentOf(a, d, 0)
             nn == IF k < 0 THEN a * Pow2(-k) ELSE a
             dd == IF k > 0 THEN d * Pow2(k) ELSE d
             q  == nn \div dd
             r  == nn % dd
             up == 2 * r > dd \/ (2 * r = dd /\ q % 2 = 1)
             m  == IF up THEN q + 1 ELSE q
         IN  IF m = Pow2(MantissaBits)
             THEN [m |-> Sign(n) * Pow2(MantissaBits - 1), e |-> s + k + 1]
             ELSE [m |-> Sign(n) * m, e |-> s + k]

\* A decimal literal n / d of the source, and an integer
FLit(n, d) == FRound(n, d, 0)

FInt(n) == FRound(n, 1, 0)

\* The exact sum a + sgn * b as an integer multiple of 2^(the smaller exponent)
FAlignedAt(x, y, sgn, lo) ==
    [n |-> (IF x.m = 0 THEN 0 ELSE x.m * Pow2(x.e - lo))
           + sgn * (IF y.m = 0 THEN 0 ELSE y.m * Pow2(y.e - lo)),
     s |-> lo]

FAligned(a, b, sgn) ==
    CHOOSE r \in {FAlignedAt(x, y, sgn, IF x.m = 0 THEN y.e ELSE IF y.m = 0 THEN x.e
                                        ELSE IF x.e < y.e THEN x.e ELSE y.e) :
                      x \in {a}, y \in {b}} : TRUE

\* The operations evaluate each operand once: x and y are the values of a, b
FAdd(a, b) ==
    CHOOSE r \in {FRound(z.n, 1, z.s) : z \in {FAligned(a, b, 1)}} : TRUE

FSub(a, b) ==
    CHOOSE r \in {FRound(z.n, 1, z.s) : z \in {FAligned(a, b, -1)}} : TRUE

FMul(a, b) ==
    CHOOSE r \in {FRound(x.m * y.m, 1, x.e + y.e) : x \in {a}, y \in {b}} : TRUE

\* a / b for b # 0
FDiv(a, b) ==
    CHOOSE r \in {FRound(Sign(y.m) * x.m, Abs(y.m), x.e - y.e) : x \in {a}, y \in {b}} : TRUE

FLe(a, b) == \E z \in {FAligned(a, b, -1)} : z.n <= 0

FMax(a, b) == CHOOSE r \in {IF FLe(x, y) THEN y ELSE x : x \in {a}, y \in {b}} : TRUE

FMin(a, b) == CHOOSE r \in {IF FLe(x, y) THEN x ELSE y : x \in {a}, y \in {b}} : TRUE

(***************************************************************************)
(* The values of the component state before anything is loaded or called   *)
(***************************************************************************)
\* cachedITUData = null
NoITUData == [loaded |-> FALSE, attenuationMatrix |-> <<>>, frequencies |-> <<>>]

\* No Radar instance under test
NoRadarModel == [emitterPower |-> 0, noiseFloor |-> 0, min_snr |-> 0, frequency |-> 0]

NoRadar == [range |-> 0, frequency |-> FZero, hasRadarModel |-> FALSE,
            radarModel |-> NoRadarModel, ituData |-> FALSE,
            imageLoaded |-> FALSE, imageData |-> <<>>]

NoCall == [op |-> "none", args |-> <<>>, ok |-> TRUE, error |-> "", value |-> 0]

\* new SimulationManager(): stepInterval is whether an interval timer is set,
\* loopPc the position of runToCompletion(), calls the step() calls that have
\* not returned, completeSeen whether a response with isComplete was processed
NoManager == [simulationKey |-> "null", isRunning |-> FALSE, isPaused |-> FALSE,
              stepInterval |-> FALSE, loopPc |-> "idle", calls |-> <<>>,
              completeSeen |-> FALSE]

ComponentIdle ==
    /\ cachedITUData = NoITUData
    /\ ituLoadCompleted = FALSE
    /\ radar = NoRadar
    /\ lastCall = NoCall
    /\ manager = NoManager

(***************************************************************************)
(* Radar, SAMSystem and Fighter: the platform models                       *)
(***************************************************************************)
\* Radar.calculatePulseIntegrationGain followed by rangeDeltaFromDecibels:
\* (pulses ^ 0.7) ^ 0.25 in thousandths, for the pulse counts the program uses
PulseRangeFactor(pulses) == IF pulses = 1 THEN 1000 ELSE 1496

\* Math.pow(rcs, 0.25) for the cross sections of the scenarios (fourth powers)
FourthRoot(rcs) == CHOOSE k \in 0..6 : k * k * k * k = rcs

\* Radar.calculateDetectionRange(rcs, pulses, range)
calculateDetectionRange(rcs, pulses, range) ==
    ((range * PulseRangeFactor(pulses)) \div 1000) * FourthRoot(rcs)

\* SAMSystem.getAzimuthToTarget / Fighter.getAzimuthToTarget, in millidegrees
getAzimuthToTarget(from, targetPosition) ==
    LET azimuthRad == Atan2(targetPosition.y - from.y, targetPosition.x - from.x)
        azimuthDeg == RoundDiv(azimuthRad * 180000, Pi)
    IN  IF azimuthDeg < 0 THEN azimuthDeg + 360000 ELSE azimuthDeg

\* SAMSystem.getDetectionRanges
getDetectionRanges(sam) ==
    [i \in DOMAIN sam.ranges |-> calculateDetectionRange(1, 1, sam.ranges[i])]

\* Number of entries of a range array (a function on 0 .. n-1)
NumRanges(ranges) == Cardinality(DOMAIN ranges)

\* The bucket index with the quotient truncated instead of rounded
AzimuthIndex_Floor(azimuthDeg, numAzimuths) ==
    ((JsRem(azimuthDeg, 360000) * numAzimuths) \div 360000) % numAzimuths

\* SAMSystem.getRangeAtAzimuth(azimuthDeg)
AzimuthIndex(azimuthDeg, numAzimuths) ==
    MathRound(JsRem(azimuthDeg, 360000) * numAzimuths, 360000) % numAzimuths

getRangeAtAzimuth(sam, azimuthDeg) ==
    LET azimuths == getDetectionRanges(sam)
    IN  azimuths[AzimuthIndex(azimuthDeg, NumRanges(azimuths))]

\* Fighter.getRCSAtAspect(azimuthDeg): the argument is read as degrees
getRCSAtAspect(rcs, azimuthDeg) ==
    LET angle == (JsRem(azimuthDeg, 360000) + 360000) % 360000
    IN  IF angle < 30000 \/ angle > 330000 THEN rcs.nose
        ELSE IF angle > 150000 /\ angle < 210000 THEN rcs.tail
        ELSE rcs.side

\* Fighter.getRCSFromPosition: the aspect it passes on is in radians
getRCSFromPosition(fighter, fighterPos, observerPos, fighterHeading) ==
    LET angleToObserver == Atan2(observerPos.y - fighterPos.y,
                                 observerPos.x - fighterPos.x)
        relativeAspect  == angleToObserver - fighterHeading
    IN  getRCSAtAspect(fighter.rcs, relativeAspect)

\* (mach * speedOfSound) / 1000: a Mach number as a speed in km/s
MachToKmS(mach) == RoundDiv(mach * 343, 1000)

\* The detection range updateSAMTrackingStatus compares the distance with
TrackingDetectionRange(sam, fighter) ==
    LET azimuth == getAzimuthToTarget(sam.position, fighter.position)
        rcs     == getRCSFromPosition(fighter, fighter.position, sam.position,
                                      fighter.heading)
        range   == getRangeAtAzimuth(sam, azimuth)
    IN  calculateDetectionRange(rcs, 1, range)

(***************************************************************************)
(* Scenario: the steps of advanceSimulationTimeStep                        *)
(***************************************************************************)
HasTrack(sam, id) == \E k \in 1..Len(sam.trackedTargets) : sam.trackedTargets[k].id = id

TrackOf(sam, id) ==
    sam.trackedTargets[CHOOSE k \in 1..Len(sam.trackedTargets) :
                           sam.trackedTargets[k].id = id]

\* TrackFighter with a lagging deletion: a target out of range keeps its track
TrackFighter_Lagging(tracks, sam, fighter, t, dt) ==
    LET distance       == Distance(fighter.position, sam.position)
        azimuth        == getAzimuthToTarget(sam.position, fighter.position)
        detectionRange == TrackingDetectionRange(sam, fighter)
    IN  IF distance <= detectionRange
        THEN IF \E k \in 1..Len(tracks) : tracks[k].id = fighter.id
             THEN [k \in 1..Len(tracks) |->
                      IF tracks[k].id = fighter.id
                      THEN [tracks[k] EXCEPT
                               !.timeElapsedTracking = @ + dt,
                               !.distance = distance,
                               !.azimuth = azimuth,
                               !.status = "tracking"]
                      ELSE tracks[k]]
             ELSE Append(tracks, [id |-> fighter.id,
                                  acquisitionTime |-> t,
                                  distance |-> distance,
                                  azimuth |-> azimuth,
                                  status |-> "tracking",
                                  timeElapsedTracking |-> dt])
        ELSE [k \in 1..Len(tracks) |->
                 IF tracks[k].id = fighter.id
                 THEN [tracks[k] EXCEPT !.status = "lost"]
                 ELSE tracks[k]]

\* One (site, fighter) iteration of updateSAMTrackingStatus; a Map keeps its
\* keys in insertion order, so the tracks are a sequence
TrackFighter(tracks, sam, fighter, t, dt) ==
    LET distance       == Distance(fighter.position, sam.position)
        azimuth        == getAzimuthToTarget(sam.position, fighter.position)
        detectionRange == TrackingDetectionRange(sam, fighter)
    IN  IF distance <= detectionRange
        THEN IF \E k \in 1..Len(tracks) : tracks[k].id = fighter.id
             THEN [k \in 1..Len(tracks) |->
                      IF tracks[k].id = fighter.id
                      THEN [tracks[k] EXCEPT
                               !.timeElapsedTracking = @ + dt,
                               !.distance = distance,
                               !.azimuth = azimuth,
                               !.status = "tracking"]
                      ELSE tracks[k]]
             ELSE Append(tracks, [id |-> fighter.id,
                                  acquisitionTime |-> t,
                                  distance |-> distance,
                                  azimuth |-> azimuth,
                                  status |-> "tracking",
                                  timeElapsedTracking |-> dt])
        ELSE SelectSeq(tracks, LAMBDA tr : tr.id # fighter.id)

RECURSIVE TrackFighters(_, _, _, _, _, _)
TrackFighters(tracks, sam, fighters, j, t, dt) ==
    IF j > Len(fighters) THEN tracks
    ELSE TrackFighters(TrackFighter(tracks, sam, fighters[j], t, dt),
                       sam, fighters, j + 1, t, dt)

updateSAMTrackingStatus(sams, fighters, t, dt) ==
    [i \in 1..Len(sams) |->
        [sams[i] EXCEPT !.trackedTargets =
            TrackFighters(sams[i].trackedTargets, sams[i], fighters, 1, t, dt)]]

\* createMissile
createMissile(position, velocity, heading, launchedBy, timeOfLaunch, target, maxRange) ==
    [position |-> position, velocity |-> velocity, heading |-> heading,
     status |-> "active", launchedBy |-> launchedBy,
     timeOfLaunch |-> timeOfLaunch, timeOfImpact |-> 0,
     target |-> target, maxRange |-> maxRange]

FighterIndex(fighters, id) == CHOOSE j \in 1..Len(fighters) : fighters[j].id = id

\* The launch test without the launch interval
SAMShouldLaunch_NoInterval(sam, track, t) ==
    /\ track.distance <= sam.memr
    /\ track.timeElapsedTracking >= sam.autoAcquisitionTime
    /\ sam.missilesRemaining > 0

\* SAMShouldLaunch with a launch interval that has to be exceeded
SAMShouldLaunch_StrictInterval(sam, track, t) ==
    /\ track.distance <= sam.memr
    /\ track.timeElapsedTracking >= sam.autoAcquisitionTime
    /\ t - sam.lastLaunchTime > sam.launchIntervalSec
    /\ sam.missilesRemaining > 0

\* The launch test of SAMDetectionAndEngagementLogic for one track of one site
SAMShouldLaunch(sam, track, t) ==
    /\ track.distance <= sam.memr
    /\ track.timeElapsedTracking >= sam.autoAcquisitionTime
    /\ t - sam.lastLaunchTime >= sam.launchIntervalSec
    /\ sam.missilesRemaining > 0

\* One track iteration of SAMDetectionAndEngagementLogic; acc = [sam, missiles]
SAMEngageTrack(acc, track, fighters, t) ==
    LET sam == acc.sam
    IN  IF (\E j \in 1..Len(fighters) : fighters[j].id = track.id)
           /\ SAMShouldLaunch(sam, track, t)
        THEN LET j == FighterIndex(fighters, track.id)
                 missileVelocityKmS == MachToKmS(sam.missileVelocity)
                 azimuth == getAzimuthToTarget(sam.position, fighters[j].position)
             IN  [sam |-> [sam EXCEPT !.missilesRemaining = @ - 1,
                                      !.lastLaunchTime = t],
                  missiles |-> Append(acc.missiles,
                      createMissile(sam.position, missileVelocityKmS, azimuth,
                                    "sam", t, j, sam.memr))]
        ELSE acc

RECURSIVE SAMEngageTracks(_, _, _, _)
SAMEngageTracks(acc, k, fighters, t) ==
    IF k > Len(acc.sam.trackedTargets) THEN acc
    ELSE SAMEngageTracks(SAMEngageTrack(acc, acc.sam.trackedTargets[k], fighters, t),
                         k + 1, fighters, t)

RECURSIVE SAMEngageSites(_, _, _, _)
SAMEngageSites(acc, i, fighters, t) ==
    IF i > Len(acc.sams) THEN acc
    ELSE LET r == SAMEngageTracks([sam |-> acc.sams[i], missiles |-> acc.missiles],
                                  1, fighters, t)
         IN  SAMEngageSites([sams |-> [acc.sams EXCEPT ![i] = r.sam],
                             missiles |-> r.missiles],
                            i + 1, fighters, t)

\* SAMDetectionAndEngagementLogic: the sites and the missile list after it
SAMDetectionAndEngagementLogic(sams, fighters, ms, t) ==
    SAMEngageSites([sams |-> sams, missiles |-> ms], 1, fighters, t)

\* FighterShouldLaunch that asks for a track on the launching fighter itself
FighterShouldLaunch_OwnTrack(fighter, sam) ==
    /\ Distance(fighter.position, sam.position) <= fighter.harmRange
    /\ HasTrack(sam, fighter.id)
    /\ fighter.missilesRemaining > 0

\* FighterShouldLaunch that does not ask for a remaining weapon
FighterShouldLaunch_Unlimited(fighter, sam) ==
    /\ Distance(fighter.position, sam.position) <= fighter.harmRange
    /\ Len(sam.trackedTargets) > 0

\* The launch test of fighterLaunchHARMLogic for one (fighter, site) pair
FighterShouldLaunch(fighter, sam) ==
    /\ Distance(fighter.position, sam.position) <= fighter.harmRange
    /\ Len(sam.trackedTargets) > 0
    /\ fighter.missilesRemaining > 0

\* One (fighter, site) iteration of fighterLaunchHARMLogic; acc = [fighter, missiles]
FighterEngageSite(acc, sams, i, t) ==
    LET fighter == acc.fighter
    IN  IF FighterShouldLaunch(fighter, sams[i])
        THEN LET harmVelocityKmS == MachToKmS(fighter.harmVelocity)
                 azimuth == getAzimuthToTarget(fighter.position, sams[i].position)
             IN  [fighter |-> [fighter EXCEPT !.missilesRemaining = @ - 1],
                  missiles |-> Append(acc.missiles,
                      createMissile(fighter.position, harmVelocityKmS, azimuth,
                                    "fighter", t, i, 0))]
        ELSE acc

RECURSIVE FighterEngageSites(_, _, _, _)
FighterEngageSites(acc, sams, i, t) ==
    IF i > Len(sams) THEN acc
    ELSE FighterEngageSites(FighterEngageSite(acc, sams, i, t), sams, i + 1, t)

RECURSIVE FightersEngage(_, _, _, _)
FightersEngage(acc, sams, j, t) ==
    IF j > Len(acc.fighters) THEN acc
    ELSE LET r == FighterEngageSites([fighter |-> acc.fighters[j],
                                      missiles |-> acc.missiles], sams, 1, t)
         IN  FightersEngage([fighters |-> [acc.fighters EXCEPT ![j] = r.fighter],
                             missiles |-> r.missiles],
                            sams, j + 1, t)

\* fighterLaunchHARMLogic: the fighters and the missile list after it
fighterLaunchHARMLogic(sams, fighters, ms, t) ==
    FightersEngage([fighters |-> fighters, missiles |-> ms], sams, 1, t)

\* wrapToPi(a) = Math.atan2(Math.sin(a), Math.cos(a))
wrapToPi(a) ==
    LET r == a % TwoPi
    IN  IF r > Pi THEN r - TwoPi ELSE r

\* updateHeading(prev, current)
updateHeading(prev, current) == prev + wrapToPi(current - prev)

\* The position a missile is guided to and tested against (missile.target.position)
TargetPosition(m, sams, fighters) ==
    IF m.launchedBy = "sam" THEN fighters[m.target].position
                            ELSE sams[m.target].position

\* The tracking test that takes every missile for tracked
MissileIsTracking_Always(m, sams, fighters) == TRUE

\* isTracking of updateMissileTracking
MissileIsTracking(m, sams, fighters) ==
    IF m.launchedBy = "sam"
    THEN \E i \in 1..Len(sams) : HasTrack(sams[i], fighters[m.target].id)
    ELSE TRUE

\* maxTurnRate * timeStep of a missile, in milliradians; a speed of 0 gives
\* an infinite rate, for which -1 stands
MissileTurnLimit(m, dt) ==
    IF m.velocity = 0 THEN -1 ELSE (294000 * dt) \div (343 * m.velocity)

\* The tracking branch of updateMissileTracking: the new heading
GuidedHeading(m, targetPos, dt) ==
    LET dx             == targetPos.x - m.position.x
        dy             == targetPos.y - m.position.y
        currentHeading == Atan2(dy, dx)
        prevHeading    == m.heading
        updHeading     == updateHeading(prevHeading, currentHeading)
        headingDiff    == updHeading - prevHeading
        limit          == MissileTurnLimit(m, dt)
    IN  IF limit >= 0 /\ Abs(headingDiff) > limit
        THEN m.heading + limit * (IF headingDiff > 0 THEN 1 ELSE -1)
        ELSE updHeading

\* The active missiles that updateMissileTracking perturbs at random
Untracked(ms, sams, fighters) ==
    {k \in 1..Len(ms) : ms[k].status = "active"
                        /\ ~MissileIsTracking(ms[k], sams, fighters)}

\* updateMissileTracking; perturb[k] is (Math.random() * 2 - 1) * 5 degrees
updateMissileTracking(ms, sams, fighters, dt, perturb) ==
    [k \in 1..Len(ms) |->
        IF ms[k].status # "active" THEN ms[k]
        ELSE IF ~MissileIsTracking(ms[k], sams, fighters)
        THEN [ms[k] EXCEPT !.heading = @ + perturb[k]]
        ELSE [ms[k] EXCEPT !.heading =
                 GuidedHeading(ms[k], TargetPosition(ms[k], sams, fighters), dt)]]

\* position + speed * (cos, sin)(heading) * timeStep
MovePosition(position, velocityKmS, heading, dt) ==
    [x |-> position.x + RoundDiv(velocityKmS * Cos(heading) * dt, 10000),
     y |-> position.y + RoundDiv(velocityKmS * Sin(heading) * dt, 10000)]

\* updateMissilePositions that moves every missile, whatever its status
updateMissilePositions_All(ms, dt) ==
    [k \in 1..Len(ms) |->
        [ms[k] EXCEPT !.position =
            MovePosition(ms[k].position, ms[k].velocity, ms[k].heading, dt)]]

\* updateMissilePositions
updateMissilePositions(ms, dt) ==
    [k \in 1..Len(ms) |->
        IF ms[k].status = "active"
        THEN [ms[k] EXCEPT !.position =
                 MovePosition(ms[k].position, ms[k].velocity, ms[k].heading, dt)]
        ELSE ms[k]]

\* The nearest site of updateFighterManeuvers (the first one among equals)
NearestSAM(fighter, sams) ==
    CHOOSE i \in 1..Len(sams) :
        \A o \in 1..Len(sams) :
            LET di == Distance(sams[i].position, fighter.position)
                do == Distance(sams[o].position, fighter.position)
            IN  di < do \/ (di = do /\ i <= o)

\* updateFighterManeuvers for one fighter: 6 g turn away from the nearest site
ManeuverHeading(fighter, sams, dt) ==
    IF fighter.maneuvers = "evasive" /\ Len(sams) > 0
    THEN LET nearest    == sams[NearestSAM(fighter, sams)]
             angleToSAM == Atan2(nearest.position.y - fighter.position.y,
                                 nearest.position.x - fighter.position.x)
             desired    == angleToSAM + Pi
             upd        == updateHeading(fighter.heading, desired)
             diff       == upd - fighter.heading
             limit      == IF fighter.velocity = 0 THEN -1
                           ELSE (58800 * dt) \div (343 * fighter.velocity)
         IN  IF limit >= 0 /\ Abs(diff) > limit
             THEN fighter.heading + limit * (IF diff > 0 THEN 1 ELSE -1)
             ELSE fighter.heading + diff
    ELSE fighter.heading

updateFighterManeuvers(fighters, sams, dt) ==
    [j \in 1..Len(fighters) |->
        [fighters[j] EXCEPT !.heading = ManeuverHeading(fighters[j], sams, dt)]]

\* updateFighterPositions without the test of the fighter's state
updateFighterPositions_Unfrozen(fighters, dt) ==
    [j \in 1..Len(fighters) |->
        [fighters[j] EXCEPT !.position =
            MovePosition(fighters[j].position, MachToKmS(fighters[j].velocity),
                         fighters[j].heading, dt)]]

\* updateFighterPositions
updateFighterPositions(fighters, dt) ==
    [j \in 1..Len(fighters) |->
        IF fighters[j].state = "active"
        THEN [fighters[j] EXCEPT !.position =
                 MovePosition(fighters[j].position, MachToKmS(fighters[j].velocity),
                              fighters[j].heading, dt)]
        ELSE fighters[j]]

\* KillRadius with the 0.02 km of a point target for site-launched missiles
KillRadius_Point(launchedBy) == IF launchedBy = "sam" THEN 0 ELSE 50

\* killRadius of checkMissileIntercept: 1.0 km and 5.0 km
KillRadius(launchedBy) == IF launchedBy = "sam" THEN 10 ELSE 50

\* The raycast of checkMissileIntercept, for a segment (mx, my) of the missile
\* and the target at (x2, y2).  ey = cos(theta) and ex = sin(theta) >= 0 in
\* thousandths, theta being the angle between the segment and the target's
\* position vector.  A zero-length segment or a target at the origin gives
\* NaN, and every comparison with NaN is false.
RaycastHit(x1, y1, mx, my, x2, y2, killRadius) ==
    LET magM == CeilSqrt(mx * mx + my * my)
        magT == CeilSqrt(x2 * x2 + y2 * y2)
    IN  IF magM = 0 \/ magT = 0 THEN FALSE
        ELSE LET c   == RoundDiv(1000 * (mx * x2 + my * y2), magM * magT)
                 ey  == IF c > 1000 THEN 1000 ELSE IF c < -1000 THEN -1000 ELSE c
                 ex  == CeilSqrt(1000000 - ey * ey)
                 num == (x2 - x1) * ey + (y2 - y1) * ex
                 den == mx * ey - my * ex
             IN  IF den = 0 THEN FALSE
                 ELSE IF (den > 0 /\ (num < 0 \/ num > den))
                         \/ (den < 0 /\ (num > 0 \/ num < den)) THEN FALSE
                 ELSE LET ix == x1 + RoundDiv(num * mx, den)
                          iy == y1 + RoundDiv(num * my, den)
                      IN  CeilSqrt((ix - x2) * (ix - x2) + (iy - y2) * (iy - y2))
                              <= killRadius

\* checkMissileIntercept(missile, targetPos, previousMissilePos)
checkMissileIntercept(missile, targetPos, previousMissilePos) ==
    LET killRadius == KillRadius(missile.launchedBy)
    IN  \/ Distance(missile.position, targetPos) <= killRadius
        \/ RaycastHit(missile.position.x, missile.position.y,
                      missile.position.x - previousMissilePos.x,
                      missile.position.y - previousMissilePos.y,
                      targetPos.x, targetPos.y, killRadius)

\* The intercept test as evaluateKillCriteria makes it: previousPosition is a
\* copy of the position the missile already has after updateMissilePositions
Intercepted(m, sams, fighters) ==
    LET previousPosition == m.position
    IN  checkMissileIntercept(m, TargetPosition(m, sams, fighters), previousPosition)

\* ExceededMaxRange with a max range that has to be exceeded
ExceededMaxRange_Strict(m, t) ==
    m.maxRange # 0 /\ m.velocity * (t - m.timeOfLaunch) > m.maxRange * 10

\* distanceTraveled >= maxRange of evaluateKillCriteria (an absent maxRange is 0)
ExceededMaxRange(m, t) ==
    m.maxRange # 0 /\ m.velocity * (t - m.timeOfLaunch) >= m.maxRange * 10

\* evaluateKillCriteria: the missiles after it
KillMissiles(ms, sams, fighters, t) ==
    [k \in 1..Len(ms) |->
        IF ms[k].status # "active" THEN ms[k]
        ELSE IF Intercepted(ms[k], sams, fighters)
        THEN [ms[k] EXCEPT !.status = "kill", !.timeOfImpact = t]
        ELSE IF ExceededMaxRange(ms[k], t)
        THEN [ms[k] EXCEPT !.status = "missed"]
        ELSE ms[k]]

\* KillTargets that leaves the target of a hit as it is
KillTargets_Spared(platforms, side, ms, sams, fighters) == platforms

\* evaluateKillCriteria: the targets of the missiles that hit become destroyed
KillTargets(platforms, side, ms, sams, fighters) ==
    [n \in 1..Len(platforms) |->
        IF \E k \in 1..Len(ms) : /\ ms[k].status = "active"
                                 /\ ms[k].launchedBy = side
                                 /\ ms[k].target = n
                                 /\ Intercepted(ms[k], sams, fighters)
        THEN [platforms[n] EXCEPT !.state = "destroyed"]
        ELSE platforms[n]]

\* MAX_SIMULATION_TIME = 600 seconds
MAX_SIMULATION_TIME == 6000

\* checkSimulationComplete with a time cap that has to be exceeded
checkSimulationComplete_Exceeds(sams, fighters, ms, t) ==
    \/ \E i \in 1..Len(sams) : sams[i].state = "destroyed"
    \/ \E j \in 1..Len(fighters) : fighters[j].state = "destroyed"
    \/ Len(ms) > 0 /\ \A k \in 1..Len(ms) : ms[k].status # "active"
    \/ t > MAX_SIMULATION_TIME

\* checkSimulationComplete
checkSimulationComplete(sams, fighters, ms, t) ==
    LET anyPlatformDestroyed ==
            \/ \E i \in 1..Len(sams) : sams[i].state = "destroyed"
            \/ \E j \in 1..Len(fighters) : fighters[j].state = "destroyed"
        allMissilesResolved == \A k \in 1..Len(ms) : ms[k].status # "active"
    IN  IF anyPlatformDestroyed THEN TRUE
        ELSE IF Len(ms) > 0 /\ allMissilesResolved THEN TRUE
        ELSE IF t >= MAX_SIMULATION_TIME THEN TRUE
        ELSE FALSE

\* engagementResult(): the missile records and the success flag
engagementResult ==
    [missileResults |->
        [k \in 1..Len(missiles) |->
            [launchedBy |-> missiles[k].launchedBy,
             launchTime |-> missiles[k].timeOfLaunch,
             timeOfImpact |-> IF missiles[k].status = "kill"
                              THEN missiles[k].timeOfImpact ELSE -1,
             impactPosition |-> IF missiles[k].status = "kill"
                                THEN TargetPosition(missiles[k], scenarioSams,
                                                    scenarioFighters)
                                ELSE [x |-> -1, y |-> -1],
             hasImpact |-> missiles[k].status = "kill",
             status |-> missiles[k].status]],
     success |-> \A i \in 1..Len(scenarioSams) : scenarioSams[i].state = "destroyed"]

(***************************************************************************)
(* Scenarios: what Scenario.create builds from the scenario definition     *)
(***************************************************************************)
\* SAMSystem.numAzimuths
numAzimuths == 360

\* A range array without attenuation, and one attenuated in the sector around
\* azimuth 90 degrees
UniformRanges(range) == [i \in 0..(numAzimuths - 1) |-> range]

SectorRanges(range, attenuated) ==
    [i \in 0..(numAzimuths - 1) |-> IF i >= 60 /\ i <= 120 THEN attenuated ELSE range]

\* new SAMSystem(platform, scenario), positioned by Scenario.create; range is
\* the platform's nominal range, the range of bucket 0, which no scenario
\* attenuates
NewSAM(id, position, memr, missileVelocity, autoAcquisitionTime, ranges, missilesRemaining) ==
    [id |-> id, position |-> position, state |-> "active",
     memr |-> memr, missileVelocity |-> missileVelocity,
     autoAcquisitionTime |-> autoAcquisitionTime,
     ranges |-> ranges, range |-> ranges[0], launchIntervalSec |-> 50,
     missilesRemaining |-> missilesRemaining, lastLaunchTime |-> 0,
     trackedTargets |-> <<>>]

\* new Fighter(...) as Scenario.create sets it up: the heading given in
\* degrees is converted to radians
NewFighter(id, position, headingDeg, velocity, harmVelocity, harmRange, missilesRemaining) ==
    [id |-> id, position |-> position,
     heading |-> RoundDiv(headingDeg * Pi, 180),
     velocity |-> velocity,
     rcs |-> [nose |-> 1, tail |-> 1, side |-> 16],
     harmVelocity |-> harmVelocity, harmRange |-> harmRange,
     missilesRemaining |-> missilesRemaining,
     state |-> "active", maneuvers |-> "none"]

Origin == [x |-> 0, y |-> 0]

At(x, y) == [x |-> x, y |-> y]

\* Time steps of the scenarios: 0.5 s (the controller's), 1 s and 2 s
TimeSteps == {5, 10, 20}

\* The site line-ups of the scenarios
SiteSets ==
    { <<NewSAM(1, Origin, 100, 29, 20, UniformRanges(300), 6)>>,
      <<NewSAM(1, Origin, 55, 58, 70, SectorRanges(300, 52), 6)>>,
      <<NewSAM(1, Origin, 100, 29, 20, UniformRanges(300), 0)>>,
      <<NewSAM(1, Origin, 100, 29, 20, UniformRanges(300), 6),
        NewSAM(2, At(0, -80), 55, 58, 20, SectorRanges(300, 52), 6)>> }

\* The fighter line-ups of the scenarios
FighterSets ==
    { <<NewFighter(1, At(300, 0), 180, 6, 29, 150, 2)>>,
      <<NewFighter(1, At(50, 0), 0, 0, 29, 0, 0)>>,
      <<NewFighter(1, At(90, 0), 0, 6, 29, 150, 0)>>,
      <<NewFighter(1, At(0, 40), 90, 6, 29, 20, 2)>>,
      <<NewFighter(1, At(80, 0), 180, 6, 29, 150, 2),
        NewFighter(2, At(350, 0), 0, 0, 12, 400, 2)>>,
      <<NewFighter(1, At(49, 0), 0, 0, 29, 0, 0),
        NewFighter(2, At(-80, 0), 0, 0, 12, 400, 2)>> }

Scenarios ==
    { [timeStep |-> dt, sams |-> ss, fighters |-> ff] :
          dt \in TimeSteps, ss \in SiteSets, ff \in FighterSets }

(***************************************************************************)
(* The state machine                                                       *)
(***************************************************************************)
Init ==
    \E sc \in Scenarios :
        /\ timeStep = sc.timeStep
        /\ timeElapsed = 0
        /\ scenarioSams = sc.sams
        /\ scenarioFighters = sc.fighters
        /\ missiles = <<>>
        /\ isEngagementComplete = FALSE
        /\ scenarioCreated = TRUE
        /\ scenarioMeta = sc
        /\ controllerPc = "idle"
        /\ lastResponse = [op |-> "none", key |-> "absent", status |-> 0]
        /\ ComponentIdle

\* Callers may keep stepping after completion; the model follows them for
\* Overrun deciseconds past the simulation time cap
Overrun == 50

\* (Math.random() * 2 - 1) * 5 degrees, in milliradians
Perturbations == {-87, 0, 87}

\* The state an advance() step computes from the current one, up to the
\* launch decisions
Tracked == updateSAMTrackingStatus(scenarioSams, scenarioFighters,
                                   timeElapsed + timeStep, timeStep)

SitesLaunched == SAMDetectionAndEngagementLogic(Tracked, scenarioFighters, missiles,
                                                timeElapsed + timeStep)

FightersLaunched == fighterLaunchHARMLogic(SitesLaunched.sams, scenarioFighters,
                                           SitesLaunched.missiles,
                                           timeElapsed + timeStep)

\* The sites, fighters and missiles after the launch decisions of a step
Launched == [sams |-> SitesLaunched.sams,
             fighters |-> FightersLaunched.fighters,
             missiles |-> FightersLaunched.missiles]

\* advanceSimulationTimeStep
Advance ==
    /\ timeElapsed < MAX_SIMULATION_TIME + Overrun
    /\ \E l \in {Launched} :
       \E perturb \in [Untracked(l.missiles, l.sams, l.fighters) -> Perturbations] :
       \E m5 \in {updateMissilePositions(
                     updateMissileTracking(l.missiles, l.sams, l.fighters,
                                           timeStep, perturb), timeStep)} :
       \E f7 \in {updateFighterPositions(
                     updateFighterManeuvers(l.fighters, l.sams, timeStep), timeStep)} :
           /\ timeElapsed' = timeElapsed + timeStep
           /\ scenarioSams' = KillTargets(l.sams, "fighter", m5, l.sams, f7)
           /\ scenarioFighters' = KillTargets(f7, "sam", m5, l.sams, f7)
           /\ missiles' = KillMissiles(m5, l.sams, f7, timeElapsed')
           /\ isEngagementComplete' =
                  checkSimulationComplete(scenarioSams', scenarioFighters',
                                          missiles', timeElapsed')
           /\ UNCHANGED timeStep

Next == Advance /\ UNCHANGED controllerVars /\ UNCHANGED componentVars

Spec == Init /\ [][Next]_vars

(***************************************************************************)
(* Properties of the tracking update and of the launch decisions           *)
(***************************************************************************)
Sites == 1..Len(scenarioSams)

Fighters == 1..Len(scenarioFighters)

\* The missiles a step appends to the list, by index in the list after it
NewMissiles == {k \in 1..Len(missiles') : k > Len(missiles)}

\* C1: after every advance() step, a site holds a Track for a fighter iff in
\* that step's tracking update the fighter's distance was <= the site's
\* detection range at the fighter's azimuth; so a track that existed before a
\* step in which the distance is larger is absent right after that step.
C1_TrackIffDetected ==
    [][\A i \in Sites : \A j \in Fighters :
          HasTrack(scenarioSams'[i], scenarioFighters[j].id)
          <=> (Distance(scenarioFighters[j].position, scenarioSams[i].position)
                 <= calculateDetectionRange(
                        getRCSFromPosition(scenarioFighters[j],
                                           scenarioFighters[j].position,
                                           scenarioSams[i].position,
                                           scenarioFighters[j].heading),
                        1,
                        getRangeAtAzimuth(scenarioSams[i],
                            getAzimuthToTarget(scenarioSams[i].position,
                                               scenarioFighters[j].position))))]_vars

\* C1 witness: a site-launched missile is in flight at a fighter that no site
\* tracks any more, so a track that existed was dropped by a later step
C1_Witness ==
    \E k \in 1..Len(missiles) :
        /\ missiles[k].launchedBy = "sam"
        /\ missiles[k].status = "active"
        /\ \A i \in Sites :
              ~HasTrack(scenarioSams[i], scenarioFighters[missiles[k].target].id)

\* The tracks of site i that pass the launch test of the claim, by position in
\* the site's track list after this step's tracking update
C2_Qualifying(i) ==
    {k \in 1..Len(Tracked[i].trackedTargets) :
        /\ Tracked[i].trackedTargets[k].distance <= scenarioSams[i].memr
        /\ Tracked[i].trackedTargets[k].timeElapsedTracking
               >= scenarioSams[i].autoAcquisitionTime
        /\ (timeElapsed + timeStep) - scenarioSams[i].lastLaunchTime >= 50
        /\ scenarioSams[i].missilesRemaining > 0}

\* The fighter site i launches at in this step: the first qualifying track
\* (after a launch the time since the last launch is 0, so no other qualifies)
C2_Target(i) ==
    LET first == CHOOSE k \in C2_Qualifying(i) : \A o \in C2_Qualifying(i) : k <= o
    IN  FighterIndex(scenarioFighters, Tracked[i].trackedTargets[first].id)

\* C2: in each advance() step a site spawns a site-launched missile at a
\* tracked target iff the tracked distance is <= the maximum effective range,
\* the time-in-track is >= the acquisition-time threshold, the time since the
\* site's last launch is >= the launch interval and interceptors remain; the
\* spawn takes exactly one interceptor and sets the last-launch time to the
\* current simulation time.
C2_SiteLaunch ==
    [][/\ \A i \in Sites :
            IF C2_Qualifying(i) # {}
            THEN /\ scenarioSams'[i].missilesRemaining
                        = scenarioSams[i].missilesRemaining - 1
                 /\ scenarioSams'[i].lastLaunchTime = timeElapsed'
            ELSE /\ scenarioSams'[i].missilesRemaining
                        = scenarioSams[i].missilesRemaining
                 /\ scenarioSams'[i].lastLaunchTime = scenarioSams[i].lastLaunchTime
       /\ \A j \in Fighters :
            Cardinality({k \in NewMissiles : /\ missiles'[k].launchedBy = "sam"
                                             /\ missiles'[k].target = j
                                             /\ missiles'[k].timeOfLaunch = timeElapsed'})
              = Cardinality({i \in Sites : C2_Qualifying(i) # {} /\ C2_Target(i) = j})
       /\ \A k \in NewMissiles : missiles'[k].timeOfLaunch = timeElapsed'
      ]_vars

\* C2 witness: a site has just launched: its last-launch time is the current
\* time, an interceptor is gone and the missile is in the list
C2_Witness ==
    /\ timeElapsed > 0
    /\ \E i \in Sites :
          /\ scenarioSams[i].lastLaunchTime = timeElapsed
          /\ scenarioSams[i].missilesRemaining < 6
    /\ \E k \in 1..Len(missiles) :
          missiles[k].launchedBy = "sam" /\ missiles[k].timeOfLaunch = timeElapsed

\* The sites fighter j launches at in this step: those within weapon range
\* that hold a track, while weapons remain
C3_InRangeTracking(j) ==
    {i \in Sites :
        /\ Distance(scenarioFighters[j].position, scenarioSams[i].position)
               <= scenarioFighters[j].harmRange
        /\ Len(Tracked[i].trackedTargets) >= 1}

C3_Spawns(j, i) ==
    /\ i \in C3_InRangeTracking(j)
    /\ scenarioFighters[j].missilesRemaining
           - Cardinality({o \in C3_InRangeTracking(j) : o < i}) > 0

\* C3: in each advance() step a fighter spawns one aircraft-launched missile
\* at every site within its weapon range iff that site holds at least one
\* track (on any fighter) and the fighter has weapons left; each spawn takes
\* exactly one weapon, and no aircraft-launched missile is spawned otherwise.
C3_FighterLaunch ==
    [][/\ \A j \in Fighters :
            scenarioFighters'[j].missilesRemaining
              = scenarioFighters[j].missilesRemaining
                  - Cardinality({i \in Sites : C3_Spawns(j, i)})
       /\ \A i \in Sites :
            Cardinality({k \in NewMissiles : /\ missiles'[k].launchedBy = "fighter"
                                             /\ missiles'[k].target = i})
              = Cardinality({j \in Fighters : C3_Spawns(j, i)})
      ]_vars

\* C3 witness: a fighter that no site tracks has just launched at a site
C3_Witness ==
    /\ \E k \in 1..Len(missiles) :
          missiles[k].launchedBy = "fighter" /\ missiles[k].timeOfLaunch = timeElapsed
    /\ \E j \in Fighters :
          /\ scenarioFighters[j].missilesRemaining < 2
          /\ \A i \in Sites : ~HasTrack(scenarioSams[i], scenarioFighters[j].id)

(***************************************************************************)
(* Properties of the kill evaluation                                       *)
(***************************************************************************)
\* The missiles that are active when a step reaches its kinematics update:
\* those active before the step and those the step launches
InFlight == {k \in 1..Len(missiles') : k > Len(missiles) \/ missiles[k].status = "active"}

\* The position of the target of missile k after the step
TargetAfter(k) == TargetPosition(missiles'[k], scenarioSams', scenarioFighters')

\* The state of the target of missile k after the step
TargetStateAfter(k) ==
    IF missiles'[k].launchedBy = "sam" THEN scenarioFighters'[missiles'[k].target].state
                                      ELSE scenarioSams'[missiles'[k].target].state

\* Some point of the segment from a to b lies within r of p: the point of the
\* segment nearest to p is a, b or the foot of the perpendicular from p
SegmentWithin(a, b, p, r) ==
    LET dx == b.x - a.x
        dy == b.y - a.y
        wx == p.x - a.x
        wy == p.y - a.y
        c1 == wx * dx + wy * dy
        c2 == dx * dx + dy * dy
        ww == wx * wx + wy * wy
    IN  IF c1 <= 0 THEN ww <= r * r
        ELSE IF c1 >= c2
        THEN (p.x - b.x) * (p.x - b.x) + (p.y - b.y) * (p.y - b.y) <= r * r
        ELSE IF ww - r * r > c2 THEN FALSE
        ELSE (ww - r * r) * c2 <= c1 * c1

\* C4: a missile in flight before a step whose movement in the step (the
\* segment from its position before the step to its position after it) passes
\* within the kill radius of its target is marked kill in that step, also when
\* its end-of-step position is farther than the kill radius from the target.
C4_NoSkipOver ==
    [][\A k \in 1..Len(missiles) :
          (/\ missiles[k].status = "active"
           /\ SegmentWithin(missiles[k].position, missiles'[k].position,
                            TargetAfter(k), KillRadius(missiles[k].launchedBy)))
          => missiles'[k].status = "kill"]_vars

\* C5: whenever the intercept test of a missile in flight succeeds in a step,
\* in that step the missile's status becomes kill, its impact time becomes the
\* current simulation time and its target's state becomes destroyed.
C5_KillOnIntercept ==
    [][\A k \in InFlight :
          checkMissileIntercept(missiles'[k], TargetAfter(k), missiles'[k].position)
          => /\ missiles'[k].status = "kill"
             /\ missiles'[k].timeOfImpact = timeElapsed'
             /\ TargetStateAfter(k) = "destroyed"]_vars

\* C5 witness: a missile has hit in the step that led to this state
C5_Witness ==
    \E k \in 1..Len(missiles) :
        /\ missiles[k].status = "kill"
        /\ missiles[k].timeOfImpact = timeElapsed
        /\ Distance(missiles[k].position,
                    TargetPosition(missiles[k], scenarioSams, scenarioFighters))
               <= KillRadius(missiles[k].launchedBy)
        /\ IF missiles[k].launchedBy = "sam"
           THEN scenarioFighters[missiles[k].target].state = "destroyed"
           ELSE scenarioSams[missiles[k].target].state = "destroyed"

(***************************************************************************)
(* Properties of the completion test                                       *)
(***************************************************************************)
AnyPlatformDestroyed ==
    \/ \E i \in Sites : scenarioSams[i].state = "destroyed"
    \/ \E j \in Fighters : scenarioFighters[j].state = "destroyed"

AllLaunchedResolved ==
    /\ Len(missiles) > 0
    /\ \A k \in 1..Len(missiles) : missiles[k].status # "active"

\* C6 as stated: advance() returns true, and engagementComplete() is true
\* afterwards, iff after the step some site or fighter is destroyed, or at
\* least one missile has been launched and none is active, or the elapsed time
\* exceeds the 600 s cap.
C6_CompleteIffExceeds ==
    isEngagementComplete
        <=> (AnyPlatformDestroyed \/ AllLaunchedResolved
             \/ timeElapsed > 6000)

\* C6 amended: advance() returns true, and engagementComplete() is true
\* afterwards, iff after the step some site or fighter is destroyed, or at
\* least one missile has been launched and none is active, or the elapsed time
\* has reached or exceeds the 600 s cap (elapsed time >= 600 s).
C6_CompleteIffReached ==
    isEngagementComplete
        <=> (AnyPlatformDestroyed \/ AllLaunchedResolved
             \/ timeElapsed >= 6000)

\* C6 witness: the engagement is complete exactly at the cap and for no other
\* reason
C6_Witness ==
    /\ isEngagementComplete
    /\ timeElapsed = 6000
    /\ ~AnyPlatformDestroyed
    /\ ~AllLaunchedResolved

(***************************************************************************)
(* Properties of the max range test                                        *)
(***************************************************************************)
\* speed * (simulation time after the step - launch time) of missile k, in
\* hundredths of a hectometre
FlownAfter(k) == missiles'[k].velocity * (timeElapsed' - missiles'[k].timeOfLaunch)

InterceptScenario ==
    /\ timeStep = 10
    /\ Len(scenarioSams) = 1
    /\ Len(scenarioFighters) = 1
    /\ MachToKmS(scenarioSams[1].missileVelocity) = 10
    /\ scenarioFighters[1].velocity = 0
    /\ Distance(scenarioFighters[1].position, scenarioSams[1].position) = 50

NoWeapons ==
    /\ \A i \in Sites : scenarioSams[i].missilesRemaining = 0
    /\ \A j \in Fighters : scenarioFighters[j].missilesRemaining = 0

\* C9: while no site has an interceptor, no fighter has a weapon and no
\* missile has been launched, a step launches no missile and destroys no
\* platform, advance() reports completion iff the elapsed time has reached
\* the 600 s cap, for the first time at 600 s, and the engagement result has
\* success = false.
C9_EndsAtCap ==
    [][(NoWeapons /\ missiles = <<>> /\ ~AnyPlatformDestroyed)
       => /\ missiles' = <<>>
          /\ NoWeapons'
          /\ ~AnyPlatformDestroyed'
          /\ isEngagementComplete' <=> timeElapsed' >= 6000
          /\ (isEngagementComplete' /\ ~isEngagementComplete) => timeElapsed' = 6000
          /\ ~engagementResult'.success]_vars

\* C9 witness: an engagement without weapons has reached the cap
C9_Witness ==
    /\ NoWeapons
    /\ missiles = <<>>
    /\ timeElapsed = 6000
    /\ isEngagementComplete
    /\ ~engagementResult.success
    /\ \E j \in Fighters : \E i \in Sites :
          /\ HasTrack(scenarioSams[i], scenarioFighters[j].id)
          /\ Distance(scenarioFighters[j].position, scenarioSams[i].position)
                 <= scenarioSams[i].memr

\* The impact times of the missiles that hit platform n of a side
ImpactTimes(side, n) ==
    {missiles[k].timeOfImpact : k \in {o \in 1..Len(missiles) :
                                          /\ missiles[o].launchedBy = side
                                          /\ missiles[o].target = n
                                          /\ missiles[o].status = "kill"}}

\* C10: the success flag is true iff every site was destroyed at a step
\* strictly before any fighter was destroyed, or no fighter was destroyed at
\* all; it is false when a fighter is destroyed before, or in the same step
\* as, a site.  A platform is destroyed at the impact time of the first
\* missile that hits it.
C10_SuccessIffSitesFirst ==
    engagementResult.success
        <=> /\ \A i \in Sites : scenarioSams[i].state = "destroyed"
            /\ \A i \in Sites : \A j \in Fighters :
                  ImpactTimes("sam", j) # {}
                  => \E ts \in ImpactTimes("fighter", i) :
                        \A tf \in ImpactTimes("sam", j) : ts < tf

(***************************************************************************)
(* SimulationController: the request handlers around one Scenario instance *)
(***************************************************************************)
\* this.simulationKey, and the keys a request body may carry
SimulationKey == "key"

Keys == {"key", "other", "absent"}

\* What storage.loadScenario gives for an id that is not stored, and the
\* value of this.scenarioMeta before the first initialize
NoScenarioMeta == [timeStep |-> 0, sams |-> <<>>, fighters |-> <<>>]

\* The stored scenarios a request can name: precipitation disabled, and an
\* engagement that completes within a few seconds
ControllerScenarios ==
    {sc \in Scenarios : /\ sc.timeStep = 5
                        /\ Len(sc.sams) = 1
                        /\ sc.sams[1].memr = 100
                        /\ sc.sams[1].missilesRemaining > 0
                        /\ sc.fighters[1].velocity = 0}

\* The controller steps a scenario no further than this elapsed time
StepHorizon == 100

\* getRangesProfile is called at most this often on one Scenario instance
MaxProfileCalls == 1

\* Scenario.create(this.scenarioMeta, 0.5) assigned to this.scenario
CreateScenario(sc) ==
    /\ scenarioCreated' = TRUE
    /\ timeStep' = 5
    /\ timeElapsed' = 0
    /\ scenarioSams' = sc.sams
    /\ scenarioFighters' = sc.fighters
    /\ missiles' = <<>>
    /\ isEngagementComplete' = FALSE

Respond(op, key, status) == lastResponse' = [op |-> op, key |-> key, status |-> status]

\* SAMSystem.getPrecipitationRanges(numPulses) without precipitation: the
\* nominal ranges are pushed onto the array the site already has
getPrecipitationRanges(sam, numPulses) ==
    LET old == NumRanges(sam.ranges)
        nominalRange == calculateDetectionRange(1, numPulses, sam.range)
    IN  [sam EXCEPT !.ranges =
            [i \in 0..(old + numAzimuths - 1) |->
                IF i < old THEN sam.ranges[i] ELSE nominalRange]]

ControllerInit ==
    /\ scenarioCreated = FALSE
    /\ scenarioMeta = NoScenarioMeta
    /\ controllerPc = "idle"
    /\ lastResponse = [op |-> "none", key |-> "absent", status |-> 0]
    /\ timeStep = 0
    /\ timeElapsed = 0
    /\ scenarioSams = <<>>
    /\ scenarioFighters = <<>>
    /\ missiles = <<>>
    /\ isEngagementComplete = FALSE
    /\ ComponentIdle

\* POST /api/simulation/initialize: the body names a scenario; no key is read
Initialize(key, sc) ==
    /\ UNCHANGED componentVars
    /\ controllerPc = "idle"
    /\ scenarioMeta' = sc
    /\ IF sc = NoScenarioMeta
       THEN /\ Respond("initialize", key, 404)
            /\ UNCHANGED <<scenarioVars, scenarioCreated, controllerPc>>
       ELSE /\ CreateScenario(sc)
            /\ Respond("initialize", key, 200)
            /\ UNCHANGED controllerPc

\* POST /api/simulation/run, up to its loop
Run(key) ==
    /\ UNCHANGED componentVars
    /\ controllerPc = "idle"
    /\ IF key # SimulationKey
       THEN /\ Respond("run", key, 403)
            /\ UNCHANGED <<scenarioVars, scenarioCreated, scenarioMeta, controllerPc>>
       ELSE IF ~scenarioCreated
       THEN /\ Respond("run", key, 500)
            /\ UNCHANGED <<scenarioVars, scenarioCreated, scenarioMeta, controllerPc>>
       ELSE /\ controllerPc' = "running"
            /\ Respond("run", key, 0)
            /\ UNCHANGED <<scenarioVars, scenarioCreated, scenarioMeta>>

\* One turn of the loop of run(), which no other handler interrupts
RunLoop ==
    /\ UNCHANGED componentVars
    /\ controllerPc = "running"
    /\ IF isEngagementComplete
       THEN /\ controllerPc' = "idle"
            /\ lastResponse' = [lastResponse EXCEPT !.status = 200]
            /\ UNCHANGED <<scenarioVars, scenarioCreated, scenarioMeta>>
       ELSE /\ Advance
            /\ UNCHANGED controllerVars

\* SimulationController.step(req, res) for a request carrying key
HandleStep(key) ==
    /\ controllerPc = "idle"
    /\ IF key # SimulationKey
       THEN /\ Respond("step", key, 403)
            /\ UNCHANGED <<scenarioVars, scenarioCreated, scenarioMeta, controllerPc>>
       ELSE IF ~scenarioCreated
       THEN /\ Respond("step", key, 500)
            /\ UNCHANGED <<scenarioVars, scenarioCreated, scenarioMeta, controllerPc>>
       ELSE /\ timeElapsed < StepHorizon
            /\ Advance
            /\ Respond("step", key, 200)
            /\ UNCHANGED <<scenarioCreated, scenarioMeta, controllerPc>>

\* POST /api/simulation/step
Step(key) == UNCHANGED componentVars /\ HandleStep(key)

\* POST /api/simulation/reset: no key is read
Reset(key) ==
    /\ UNCHANGED componentVars
    /\ controllerPc = "idle"
    /\ IF scenarioMeta = NoScenarioMeta
       THEN /\ Respond("reset", key, 500)
            /\ UNCHANGED <<scenarioVars, scenarioCreated, scenarioMeta, controllerPc>>
       ELSE /\ CreateScenario(scenarioMeta)
            /\ Respond("reset", key, 200)
            /\ UNCHANGED <<scenarioMeta, controllerPc>>

\* GET /api/simulation/ranges, the range-profile recomputation: no key is read
GetRangesProfile(key) ==
    /\ UNCHANGED componentVars
    /\ controllerPc = "idle"
    /\ IF ~scenarioCreated
       THEN /\ Respond("ranges", key, 500)
            /\ UNCHANGED <<scenarioVars, scenarioCreated, scenarioMeta, controllerPc>>
       ELSE /\ NumRanges(scenarioSams[1].ranges) < (1 + MaxProfileCalls) * numAzimuths
            /\ scenarioSams' = [scenarioSams EXCEPT
                                   ![1] = getPrecipitationRanges(scenarioSams[1], 10)]
            /\ Respond("ranges", key, 200)
            /\ UNCHANGED <<timeStep, timeElapsed, scenarioFighters, missiles,
                           isEngagementComplete, scenarioCreated, scenarioMeta,
                           controllerPc>>

ControllerNext ==
    \/ \E key \in Keys : \E sc \in ControllerScenarios \cup {NoScenarioMeta} :
          Initialize(key, sc)
    \/ \E key \in Keys : Run(key)
    \/ RunLoop
    \/ \E key \in Keys : Step(key)
    \/ \E key \in Keys : Reset(key)
    \/ \E key \in Keys : GetRangesProfile(key)

ControllerSpec == ControllerInit /\ [][ControllerNext]_vars

\* The requests that change the simulation
MutatingOps == {"initialize", "run", "step", "reset", "ranges"}

\* C11: a state-mutating controller operation (initialize, run, step, reset,
\* range-profile recomputation) called with an absent or mismatched
\* simulation key is rejected and leaves the scenario instance, its elapsed
\* time, platforms, missiles and the sites' range arrays unchanged.  Any error
\* status counts as a rejection.
C11_RejectedWithoutKey ==
    [][(/\ controllerPc = "idle"
        /\ lastResponse'.op \in MutatingOps
        /\ lastResponse'.key # SimulationKey)
       => /\ lastResponse'.status \in {403, 404, 500}
          /\ UNCHANGED <<scenarioVars, scenarioCreated>>]_vars

(***************************************************************************)
(* C12: destroyed is terminal                                              *)
(***************************************************************************)
\* C12: once the state of a site or of a fighter is destroyed it stays
\* destroyed in every later advance() step, and a destroyed fighter keeps its
\* position and its heading.
C12_DestroyedIsTerminal ==
    [][/\ \A i \in Sites :
            scenarioSams[i].state = "destroyed"
            => scenarioSams'[i].state = "destroyed"
       /\ \A j \in Fighters :
            scenarioFighters[j].state = "destroyed"
            => /\ scenarioFighters'[j].state = "destroyed"
               /\ scenarioFighters'[j].position = scenarioFighters[j].position
               /\ scenarioFighters'[j].heading = scenarioFighters[j].heading]_vars

\* A fighter in flight was destroyed and a further step has been taken since
C12_Witness ==
    \E j \in Fighters :
        /\ scenarioFighters[j].state = "destroyed"
        /\ scenarioFighters[j].velocity > 0
        /\ \E k \in 1..Len(missiles) :
              /\ missiles[k].launchedBy = "sam"
              /\ missiles[k].target = j
              /\ missiles[k].status = "kill"
              /\ missiles[k].timeOfImpact < timeElapsed

(***************************************************************************)
(* C13: the turn-rate clamp of guided missiles                             *)
(***************************************************************************)
\* C13: for every active missile that is guided toward its target, the
\* magnitude of its heading change in one step is at most maxTurnRate *
\* timeStep with maxTurnRate = 30 * 9.8 / (speed in m/s).  Headings are in
\* milliradians, speeds in hm/s and the time step in deciseconds, so the bound
\* is 294 * timeStep / velocity.
C13_TurnWithinLimit ==
    [][\A k \in 1..Len(missiles) :
          (/\ missiles[k].status = "active"
           /\ missiles[k].velocity > 0
           /\ MissileIsTracking(missiles[k], Launched.sams, Launched.fighters))
          => Abs(missiles'[k].heading - missiles[k].heading) * missiles[k].velocity
                <= 294 * timeStep]_vars

(***************************************************************************)
(* C14: the aspect of a fighter as a site sees it                          *)
(***************************************************************************)
\* 30 degrees in milliradians, rounded down and rounded up
NoseHalfAngleBelow == 523

NoseHalfAngleAbove == 524

\* The bearing from the fighter to the site relative to the fighter's heading,
\* in (-Pi, Pi]
RelativeBearing(fighter, sam) ==
    wrapToPi(Atan2(sam.position.y - fighter.position.y,
                   sam.position.x - fighter.position.x) - fighter.heading)

\* C14: the RCS the tracking update uses for a fighter is its nose RCS when
\* the bearing from the fighter to the observing site is within 30 degrees of
\* the fighter's heading, its tail RCS when that bearing is within 30 degrees
\* of the reciprocal of the heading, and its side RCS for every other aspect.
\* The aspects on a boundary are left open.
C14_AspectBuckets ==
    \A i \in Sites : \A j \in Fighters :
        LET fighter == scenarioFighters[j]
            sam     == scenarioSams[i]
            rel     == Abs(RelativeBearing(fighter, sam))
            used    == getRCSFromPosition(fighter, fighter.position, sam.position,
                                          fighter.heading)
        IN  /\ rel < NoseHalfAngleBelow => used = fighter.rcs.nose
            /\ rel > Pi - NoseHalfAngleBelow => used = fighter.rcs.tail
            /\ (rel > NoseHalfAngleAbove /\ rel < Pi - NoseHalfAngleAbove)
                  => used = fighter.rcs.side

(***************************************************************************)
(* ituData: the cached attenuation table and its bilinear lookup           *)
(***************************************************************************)
\* ITU_RAIN_RATES, mm/hr
ITU_RAIN_RATES ==
    <<FLit(1, 100), FLit(1, 10), FLit(5, 10), FInt(1), FInt(2), FInt(3), FInt(4),
      FInt(5), FInt(10), FInt(15), FInt(20), FInt(25), FInt(30), FInt(35),
      FInt(40), FInt(45), FInt(50), FInt(55), FInt(60)>>

FREQUENCY_START == FInt(5)

FREQUENCY_STEP == FLit(2, 10)

\* The CSV files the data directory may hold: rows of attenuation values in
\* dB/km, one row per frequency and one column per rain rate
CsvRow(i, step, offset) ==
    [j \in 1..Len(ITU_RAIN_RATES) |-> FLit(offset + i * step * j + j * j, 1000)]

CsvFiles ==
    {<<CsvRow(1, 3, 1), CsvRow(2, 3, 1), CsvRow(3, 3, 1)>>,
     <<CsvRow(1, 5, 40)>>,
     <<CsvRow(4, 2, 700), CsvRow(1, 1, 90)>>}

\* What a call of loadITUData finds: the directory cannot be read, it holds
\* no CSV file, or it holds one of the files
LoadOutcomes == {<<"fail">>, <<"empty">>} \cup {<<"csv", file>> : file \in CsvFiles}

\* cachedITUData as loadITUData builds it
ParsedITUData(outcome) ==
    IF outcome[1] = "empty"
    THEN [loaded |-> TRUE, attenuationMatrix |-> <<>>, frequencies |-> <<>>]
    ELSE [loaded |-> TRUE,
          attenuationMatrix |-> outcome[2],
          frequencies |-> [i \in 1..Len(outcome[2]) |->
                              FAdd(FREQUENCY_START, FMul(FInt(i - 1), FREQUENCY_STEP))]]

\* frequencyRange and rainRateRange of the cached data
frequencyRange(data) ==
    IF Len(data.frequencies) = 0 THEN <<FREQUENCY_START, FREQUENCY_START>>
    ELSE <<data.frequencies[1], data.frequencies[Len(data.frequencies)]>>

rainRateRange == <<ITU_RAIN_RATES[1], ITU_RAIN_RATES[Len(ITU_RAIN_RATES)]>>

\* lerp that takes the value of the lower node
lerp_Left(x, x0, x1, y0, y1) == y0

\* lerp(x, x0, x1, y0, y1)
lerp(x, x0, x1, y0, y1) ==
    FAdd(y0, FDiv(FMul(FSub(x, x0), FSub(y1, y0)), FSub(x1, x0)))

\* The bounding indices getAttenuation finds for x in the ascending list xs
BoundingIndices(xs, x) ==
    LET n    == Len(xs)
        hits == {i \in 1..(n - 1) : FLe(xs[i], x) /\ FLe(x, xs[i + 1])}
    IN  IF FLe(xs[n], x) THEN <<n, n>>
        ELSE IF hits = {} THEN <<1, 1>>
        ELSE LET i == CHOOSE h \in hits : \A o \in hits : h <= o
             IN  <<i, i + 1>>

\* attenuationMatrix[f]?.[r] ?? 0
MatrixAt(matrix, f, r) ==
    IF f \in DOMAIN matrix /\ r \in DOMAIN matrix[f] THEN matrix[f][r] ELSE FZero

Returned(value) == [ok |-> TRUE, error |-> "", value |-> value]

Thrown(error) == [ok |-> FALSE, error |-> error, value |-> 0]

\* The four surrounding values and the bilinear interpolation between them,
\* for the clamped inputs f, r and their bounding indices fi, ri
InterpolateAt(data, f, r, fi, ri) ==
    LET q00 == MatrixAt(data.attenuationMatrix, fi[1], ri[1])
        q01 == MatrixAt(data.attenuationMatrix, fi[1], ri[2])
        q10 == MatrixAt(data.attenuationMatrix, fi[2], ri[1])
        q11 == MatrixAt(data.attenuationMatrix, fi[2], ri[2])
        f0  == data.frequencies[fi[1]]
        f1  == data.frequencies[fi[2]]
        r0  == ITU_RAIN_RATES[ri[1]]
        r1  == ITU_RAIN_RATES[ri[2]]
    IN  IF fi[1] = fi[2] /\ ri[1] = ri[2] THEN q00
        ELSE IF fi[1] = fi[2] THEN lerp(r, r0, r1, q00, q01)
        ELSE IF ri[1] = ri[2] THEN lerp(f, f0, f1, q00, q10)
        ELSE lerp(r, r0, r1, lerp(f, f0, f1, q00, q10), lerp(f, f0, f1, q01, q11))

\* The lookup for inputs f, r already clamped to the ranges of the table
LookupClamped(data, f, r) ==
    CHOOSE v \in {InterpolateAt(data, f, r, fi, ri) :
                     fi \in {BoundingIndices(data.frequencies, f)},
                     ri \in {BoundingIndices(ITU_RAIN_RATES, r)}} : TRUE

\* getAttenuation(frequency, rainRate) on the cached data
getAttenuation(data, frequency, rainRate) ==
    IF ~data.loaded THEN Thrown("ITU data not loaded. Call loadITUData() first.")
    ELSE IF Len(data.attenuationMatrix) = 0 THEN Returned(FZero)
    ELSE Returned(CHOOSE v \in
            {LookupClamped(data, f, r) :
                f \in {FMax(fr[1], FMin(fr[2], frequency)) : fr \in {frequencyRange(data)}},
                r \in {FMax(rainRateRange[1], FMin(rainRateRange[2], rainRate))}} : TRUE)

(***************************************************************************)
(* Radar: the ray-march of the detection range through a precipitation     *)
(* field.  Ranges are in hectometres, power levels in thousandths of a dB, *)
(* rain rates and specific attenuations are floating-point numbers.        *)
(***************************************************************************)
\* The azimuths of the rays, in degrees
Azimuths == {0, 90}

\* The image data loadImageDataFromScenario can extract: the rain rate that
\* sampleRainRateBilinear finds at each step of each ray (0 outside the image)
Dry == FZero

Drizzle == FLit(5, 1000)

Rain == FInt(25)

PrecipitationImages ==
    {[az \in Azimuths |-> <<Dry, Dry, Dry, Dry, Dry, Dry>>],
     [az \in Azimuths |-> IF az = 0 THEN <<Dry, Rain, Rain, Dry>>
                          ELSE <<Drizzle, Drizzle>>],
     [az \in Azimuths |-> IF az = 0 THEN <<Rain>> ELSE <<Dry, Dry, Dry, Rain>>]}

\* The radars under test: nominal range, frequency in GHz and, for the
\* power-based calculation, a radar model
RadarModels ==
    {[emitterPower |-> p, noiseFloor |-> 7000, min_snr |-> 13000, frequency |-> 5] :
        p \in {71422, 86422, 106422}}

RadarConfigs ==
    {[range |-> r, frequency |-> FInt(5), hasRadarModel |-> FALSE,
      radarModel |-> NoRadarModel, ituData |-> FALSE,
      imageLoaded |-> FALSE, imageData |-> <<>>] : r \in {20, 40}}
    \cup
    {[range |-> r, frequency |-> FInt(5), hasRadarModel |-> TRUE,
      radarModel |-> rm, ituData |-> FALSE,
      imageLoaded |-> FALSE, imageData |-> <<>>] : r \in {20, 40}, rm \in RadarModels}

\* scenario.grid.resolution of 1 pixel per km: rangeStepKm, in hectometres
rangeStepKm == 10

\* 20 * Math.log10((4 * Math.PI) / wavelength) for the frequency in GHz
WavelengthLoss(frequency) == IF frequency = 5 THEN 46421 ELSE 52442

\* 20 * Math.log10((tRangeMeter + sRangeMeter) / tRangeMeter) of pathLoss at
\* step iray, where tRangeMeter is iray + 1 steps
StepPathLoss == <<6021, 3522, 2499, 1938, 1584, 1339, 1160, 1023, 915, 828>>

\* Radar.pathLoss(totalRangeKm, stepRangeKm, frequency, pathAttenuationDb)
pathLoss(iray, pathAttenuationDb) == StepPathLoss[iray + 1] + pathAttenuationDb

\* A non-negative floating-point number in thousandths, rounded down
FToMilli(x) ==
    CHOOSE v \in {IF y.e >= 0 THEN y.m * Pow2(y.e) * 1000
                  ELSE (y.m * 1000) \div Pow2(-y.e) : y \in {x}} : TRUE

\* Radar.getSpecificAttenuation(rainRate)
getSpecificAttenuation(rdr, data, rainRate) ==
    IF ~rdr.ituData THEN Thrown("ITU data not loaded")
    ELSE getAttenuation(data, rdr.frequency, rainRate)

\* sampleRainRateBilinear at step iray of the ray
sampleRainRate(image, azimuth, iray) ==
    IF iray + 1 <= Len(image[azimuth]) THEN image[azimuth][iray + 1] ELSE FZero

\* Whether a sampled rain rate passes the noise threshold: rainRate > 0.01
AboveNoise(rainRate) == ~FLe(rainRate, FLit(1, 100))

\* The loop of calculateDetectionRangeWithPrecipitationFieldSampling from step
\* iray on; an exception ends it
RECURSIVE RayMarch(_, _, _, _, _, _, _)

\* The rest of step iray once the specific attenuation of the step is known,
\* and the steps after it
RayStep(rdr, data, azimuth, NRay, iray, currentPowerDb, lastDetectableRange, attenuation) ==
    IF ~attenuation.ok THEN attenuation
    ELSE LET stepAttenuationDb == (FToMilli(attenuation.value) * rangeStepKm) \div 10
         IN  \* power is currentPowerDb after the two-way loss of the step
             CHOOSE out \in
                {IF power - rdr.radarModel.noiseFloor >= rdr.radarModel.min_snr
                 THEN RayMarch(rdr, data, azimuth, NRay, iray + 1, power,
                               (iray + 1) * rangeStepKm)
                 ELSE Returned(lastDetectableRange) :
                    power \in {currentPowerDb - 2 * pathLoss(iray, stepAttenuationDb)}} : TRUE

RayMarch(rdr, data, azimuth, NRay, iray, currentPowerDb, lastDetectableRange) ==
    IF iray >= NRay THEN Returned(lastDetectableRange)
    ELSE IF ~rdr.imageLoaded THEN Thrown("Image data not loaded")
    ELSE CHOOSE out \in
            {RayStep(rdr, data, azimuth, NRay, iray, currentPowerDb, lastDetectableRange,
                     IF AboveNoise(rainRate)
                     THEN getSpecificAttenuation(rdr, data, rainRate)
                     ELSE Returned(FZero)) :
                rainRate \in {sampleRainRate(rdr.imageData, azimuth, iray)}} : TRUE

\* The body of the try block
SampleField(rdr, data, azimuth) ==
    LET maxRangeKm == (rdr.range * 3) \div 2
        NRay       == (maxRangeKm + rangeStepKm - 1) \div rangeStepKm
    IN  IF ~rdr.hasRadarModel
        THEN Thrown("TypeError: Cannot read properties of null (reading 'frequency')")
        ELSE RayMarch(rdr, data, azimuth, NRay, 0,
                      rdr.radarModel.emitterPower
                          - WavelengthLoss(rdr.radarModel.frequency),
                      rangeStepKm)

\* The catch block that lets the exception through
RecoverFromSampling_Rethrow(rdr, rcs, numPulses, attempt) == attempt

\* The end of the try block and the catch block of
\* calculateDetectionRangeWithPrecipitationFieldSampling
RecoverFromSampling(rdr, rcs, numPulses, attempt) ==
    IF attempt.ok
    THEN IF attempt.value > 0 THEN attempt
         ELSE Returned(calculateDetectionRange(rcs, numPulses, rdr.range))
    ELSE Returned(calculateDetectionRange(rcs, numPulses, rdr.range))

\* Radar.calculateDetectionRangeWithPrecipitationFieldSampling(rcs, position,
\* azimuth, scenario, numPulses); hasFieldImage is scenario.precipitationFieldImage
calculateDetectionRangeWithPrecipitationFieldSampling(rdr, data, rcs, azimuth, hasFieldImage, numPulses) ==
    IF ~hasFieldImage
    THEN Returned(calculateDetectionRange(rcs, numPulses, rdr.range))
    ELSE CHOOSE out \in {RecoverFromSampling(rdr, rcs, numPulses, attempt) :
                            attempt \in {SampleField(rdr, data, azimuth)}} : TRUE

(***************************************************************************)
(* The attenuation table called on its own                                 *)
(***************************************************************************)
\* No Scenario instance and an idle controller
NoScenario ==
    /\ timeStep = 0
    /\ timeElapsed = 0
    /\ scenarioSams = <<>>
    /\ scenarioFighters = <<>>
    /\ missiles = <<>>
    /\ isEngagementComplete = FALSE
    /\ scenarioCreated = FALSE
    /\ scenarioMeta = NoScenarioMeta
    /\ controllerPc = "idle"
    /\ lastResponse = [op |-> "none", key |-> "absent", status |-> 0]

Called(op, args, outcome) ==
    lastCall' = [op |-> op, args |-> args, ok |-> outcome.ok,
                 error |-> outcome.error, value |-> outcome.value]

\* Whether loadITUData() completes: it returns the cached data if there are
\* any, and is rejected when the directory cannot be read
LoadCompletes(data, outcome) == data.loaded \/ outcome[1] # "fail"

\* loadITUData() that caches nothing when it finds no CSV file
LoadedITUData_DropsEmpty(data, outcome) ==
    IF data.loaded \/ outcome[1] \in {"fail", "empty"} THEN data
    ELSE ParsedITUData(outcome)

\* The cached data after loadITUData() has met the outcome
LoadedITUData(data, outcome) ==
    IF data.loaded \/ outcome[1] = "fail" THEN data ELSE ParsedITUData(outcome)

\* await loadITUData()
LoadITUData(outcome) ==
    /\ cachedITUData' = LoadedITUData(cachedITUData, outcome)
    /\ ituLoadCompleted' = (ituLoadCompleted \/ LoadCompletes(cachedITUData, outcome))
    /\ Called("loadITUData", <<>>,
              IF LoadCompletes(cachedITUData, outcome)
              THEN Returned(0) ELSE Thrown("ENOENT"))
    /\ UNCHANGED <<radar, scenarioVars, controllerVars, manager>>

\* The midpoint of two numbers as a caller computes it
Midpoint(a, b) == FDiv(FAdd(a, b), FInt(2))

\* The frequencies and rain rates of the lookups: the grid nodes, the
\* midpoints of adjacent nodes (for the rain rates, of the first
\* MidpointColumns pairs), and values outside the grid
MaxRows == 3

MidpointColumns == 6

NodeFrequency(i) == FAdd(FREQUENCY_START, FMul(FInt(i - 1), FREQUENCY_STEP))

FrequencyMidpoints ==
    [i \in 1..(MaxRows - 1) |-> Midpoint(NodeFrequency(i), NodeFrequency(i + 1))]

RainRateMidpoints ==
    [j \in 1..MidpointColumns |-> Midpoint(ITU_RAIN_RATES[j], ITU_RAIN_RATES[j + 1])]

LookupFrequencies ==
    {NodeFrequency(i) : i \in 1..MaxRows}
    \cup {FrequencyMidpoints[i] : i \in 1..(MaxRows - 1)}
    \cup {FInt(4), FInt(10)}

LookupRainRates ==
    {ITU_RAIN_RATES[j] : j \in 1..Len(ITU_RAIN_RATES)}
    \cup {RainRateMidpoints[j] : j \in 1..MidpointColumns}
    \cup {FZero, FInt(100)}

\* A call of getAttenuation(frequency, rainRate)
GetAttenuation(frequency, rainRate) ==
    /\ Called("getAttenuation", <<frequency, rainRate>>,
              getAttenuation(cachedITUData, frequency, rainRate))
    /\ UNCHANGED <<cachedITUData, ituLoadCompleted, radar, scenarioVars, controllerVars, manager>>

TableInit == NoScenario /\ ComponentIdle

TableNext ==
    \/ \E outcome \in LoadOutcomes : LoadITUData(outcome)
    \/ \E frequency \in LookupFrequencies : \E rainRate \in LookupRainRates :
          GetAttenuation(frequency, rainRate)

TableSpec == TableInit /\ [][TableNext]_vars

(***************************************************************************)
(* The Radar called on its own                                             *)
(***************************************************************************)
\* await radar.loadITUData(): this.ituData is set once the load has completed
RadarLoadITUData(outcome) ==
    /\ cachedITUData' = IF radar.ituData THEN cachedITUData
                        ELSE LoadedITUData(cachedITUData, outcome)
    /\ ituLoadCompleted' = (ituLoadCompleted
                             \/ (~radar.ituData /\ LoadCompletes(cachedITUData, outcome)))
    /\ radar' = [radar EXCEPT !.ituData = @ \/ LoadCompletes(cachedITUData, outcome)]
    /\ Called("Radar.loadITUData", <<>>,
              IF radar'.ituData THEN Returned(0) ELSE Thrown("ENOENT"))
    /\ UNCHANGED <<scenarioVars, controllerVars, manager>>

\* await radar.loadImageDataFromScenario(scenario): a failure to load the
\* image is logged and leaves this.imageData as it was
LoadImageDataFromScenario(outcome) ==
    /\ radar' = IF outcome[1] = "fail" THEN radar
                ELSE [radar EXCEPT !.imageLoaded = TRUE, !.imageData = outcome[2]]
    /\ Called("loadImageDataFromScenario", <<>>, Returned(0))
    /\ UNCHANGED <<cachedITUData, ituLoadCompleted, scenarioVars, controllerVars, manager>>

ImageOutcomes == {<<"fail">>} \cup {<<"image", image>> : image \in PrecipitationImages}

\* The cross sections and pulse counts of the calls
CrossSections == {1, 16}

PulseCounts == {1, 10}

\* A call of calculateDetectionRangeWithPrecipitationFieldSampling
DetectionRangeWithSampling(rcs, azimuth, hasFieldImage, numPulses) ==
    /\ Called("calculateDetectionRangeWithPrecipitationFieldSampling",
              <<rcs, azimuth, hasFieldImage, numPulses>>,
              calculateDetectionRangeWithPrecipitationFieldSampling(
                  radar, cachedITUData, rcs, azimuth, hasFieldImage, numPulses))
    /\ UNCHANGED <<cachedITUData, ituLoadCompleted, radar, scenarioVars, controllerVars, manager>>

RadarInit ==
    /\ NoScenario
    /\ cachedITUData = NoITUData
    /\ ituLoadCompleted = FALSE
    /\ radar \in RadarConfigs
    /\ lastCall = NoCall
    /\ manager = NoManager

RadarNext ==
    \/ \E outcome \in LoadOutcomes : RadarLoadITUData(outcome)
    \/ \E outcome \in ImageOutcomes : LoadImageDataFromScenario(outcome)
    \/ \E rcs \in CrossSections : \E azimuth \in Azimuths :
       \E hasFieldImage \in BOOLEAN : \E numPulses \in PulseCounts :
          DetectionRangeWithSampling(rcs, azimuth, hasFieldImage, numPulses)

RadarSpec == RadarInit /\ [][RadarNext]_vars

(***************************************************************************)
(* C15: a failure of the field sampling falls back to the free-space range *)
(***************************************************************************)
SamplingOp == "calculateDetectionRangeWithPrecipitationFieldSampling"

\* The errors of a resource that is not loaded
ResourceErrors == {"ITU data not loaded", "Image data not loaded",
                   "ITU data not loaded. Call loadITUData() first."}

\* C15: when sampling the precipitation field fails during the ray-march
\* because the attenuation table or the image data is not loaded, the call
\* does not propagate the error and returns exactly the free-space detection
\* range for the given RCS and pulse count.
C15_FallsBackToFreeSpace ==
    [][(/\ lastCall'.op = SamplingOp
        /\ lastCall'.args[3]
        /\ SampleField(radar, cachedITUData, lastCall'.args[2]).error
              \in ResourceErrors)
       => /\ lastCall'.ok
          /\ lastCall'.value = calculateDetectionRange(lastCall'.args[1],
                                   lastCall'.args[4], radar.range)]_vars

\* A ray-march that met rain with the image loaded and no attenuation table
\* has answered with the free-space range of 10 pulses
C15_Witness ==
    /\ lastCall.op = SamplingOp
    /\ lastCall.args[3]
    /\ lastCall.args[4] = 10
    /\ radar.imageLoaded
    /\ SampleField(radar, cachedITUData, lastCall.args[2]).error = "ITU data not loaded"
    /\ lastCall.ok
    /\ lastCall.value = calculateDetectionRange(lastCall.args[1], 10, radar.range)

(***************************************************************************)
(* C16: a lookup before the table is loaded                                *)
(***************************************************************************)
NotLoadedError == "ITU data not loaded. Call loadITUData() first."

\* C16: getAttenuation called before a load of the dataset has completed
\* fails with the uninitialized-table error instead of returning a value, and
\* never fails with that error once a load has completed.
C16_FailsIffNotLoaded ==
    [][lastCall'.op = "getAttenuation"
       => /\ ~ituLoadCompleted
             => (~lastCall'.ok /\ lastCall'.error = NotLoadedError)
          /\ ituLoadCompleted
             => (lastCall'.ok /\ lastCall'.error # NotLoadedError)]_vars

\* A lookup made before any load has completed has failed with that error
C16_Witness ==
    /\ lastCall.op = "getAttenuation"
    /\ ~ituLoadCompleted
    /\ ~lastCall.ok
    /\ lastCall.error = NotLoadedError

(***************************************************************************)
(* C17: lookups at the grid nodes and at the midpoints between them        *)
(***************************************************************************)
\* The largest number of a non-empty sequence
RECURSIVE FMaxOf(_, _, _)
FMaxOf(xs, i, best) ==
    IF i > Len(xs) THEN best
    ELSE LET next == FMax(best, xs[i]) IN FMaxOf(xs, i + 1, next)

\* The largest value stored in each of the files
LargestStored ==
    [file \in CsvFiles |->
        FMaxOf([i \in 1..Len(file) |-> FMaxOf(file[i], 1, file[i][1])], 1, FZero)]

\* |a - b| is at most n units in the last place of the number scale
WithinUlps(a, b, scale, n) ==
    LET d == FAligned(a, b, -1)
    IN  IF d.s >= scale.e THEN Abs(d.n) * Pow2(d.s - scale.e) <= n
        ELSE Abs(d.n) <= n * Pow2(scale.e - d.s)

\* What the claim expects of a lookup at (frequency, rainRate): the stored
\* value at a grid node, the mean of the two stored values at the midpoint of
\* two adjacent nodes of a row or of a column
ExpectedLookups(data, frequency, rainRate) ==
    LET rows == 1..Len(data.frequencies)
        cols == 1..Len(ITU_RAIN_RATES)
        M    == data.attenuationMatrix
        fn   == {i \in rows : data.frequencies[i] = frequency}
        fm   == {i \in rows \ {Len(data.frequencies)} : FrequencyMidpoints[i] = frequency}
        rn   == {j \in cols : ITU_RAIN_RATES[j] = rainRate}
        rm   == {j \in 1..MidpointColumns : RainRateMidpoints[j] = rainRate}
    IN  {M[x[1]][x[2]] : x \in fn \X rn}
        \cup {Midpoint(M[x[1]][x[2]], M[x[1]][x[2] + 1]) : x \in fn \X rm}
        \cup {Midpoint(M[x[1]][x[2]], M[x[1] + 1][x[2]]) : x \in fm \X rn}

\* A bound on the rounding error of the interpolation, in units in the last
\* place of the largest stored value: each of the operations of lerp rounds,
\* and the rounding of x is scaled by x / (x1 - x0), at most 27 on this grid
LerpSlack == 32

RainOnRay(rdr, azimuth) ==
    /\ rdr.imageLoaded
    /\ \E iray \in 0..(((rdr.range * 3) \div 2 + rangeStepKm - 1) \div rangeStepKm - 1) :
          AboveNoise(sampleRainRate(rdr.imageData, azimuth, iray))

\* C18: for every azimuth, precipitation field, RCS > 0 and pulse count, the
\* range returned by calculateDetectionRangeWithPrecipitationFieldSampling is
\* at most the free-space detection range for the same RCS and pulse count,
\* and strictly less whenever some rain rate sampled along the ray exceeds the
\* noise threshold.
C18_AttenuatedWithinFreeSpace ==
    [][lastCall'.op = SamplingOp
       => LET freeSpace == calculateDetectionRange(lastCall'.args[1],
                                                   lastCall'.args[4], radar.range)
          IN  /\ lastCall'.ok
              /\ lastCall'.value <= freeSpace
              /\ (lastCall'.args[3] /\ RainOnRay(radar, lastCall'.args[2]))
                    => lastCall'.value < freeSpace]_vars

(***************************************************************************)
(* SAMSystem and Fighter queries called on their own                       *)
(***************************************************************************)
\* Fighter.shouldLaunchHARM(distanceToSAM, samMEMR, samTracking): the value
\* the call produces, "true" or "false" for the two booleans and "undefined"
\* where the body ends without a return statement
shouldLaunchHARM(fighter, distanceToSAM, samMEMR, samTracking) ==
    IF samTracking
    THEN IF distanceToSAM <= samMEMR /\ fighter.harmRange < distanceToSAM
         THEN Returned("true")
         ELSE Returned("false")
    ELSE Returned("undefined")

\* The fighters asked: no anti-radiation range, one of 3 km and one of 6 km
QueriedFighters ==
    {NewFighter(1, Origin, 0, 6, 29, harmRange, 2) : harmRange \in {0, 30, 60}}

\* Distances to the site and maximum effective ranges of the site, around the
\* weapon ranges and around each other
QueriedDistances == {0, 29, 30, 31, 50, 51, 60, 61, 100}

QueriedMEMR == {30, 50, 100}

\* A site whose precomputed ranges differ from bucket to bucket
BucketRanges(n) == [i \in 0..(n - 1) |-> 100 + i]

\* Sizes of the precomputed range arrays
BucketCounts == {1, 4, 7, 12}

QueriedSites ==
    {NewSAM(1, Origin, 100, 29, 20, BucketRanges(n), 6) : n \in BucketCounts}

\* Queried azimuths in [0, 360): the multiples of 15 degrees, the midpoints
\* between them, a thousandth of a degree to either side of each multiple,
\* and the two sides of the first midpoint of seven buckets
QueriedAzimuths ==
    {a \in {k * 15000 + d : k \in 0..24, d \in {-1, 0, 1, 7500}} \cup {25714, 25715} :
        a >= 0 /\ a < 360000}

ShouldLaunchHARM(fighter, distanceToSAM, samMEMR, samTracking) ==
    /\ Called("shouldLaunchHARM", <<fighter, distanceToSAM, samMEMR, samTracking>>,
              shouldLaunchHARM(fighter, distanceToSAM, samMEMR, samTracking))
    /\ UNCHANGED <<cachedITUData, ituLoadCompleted, radar, scenarioVars, controllerVars, manager>>

GetRangeAtAzimuth(sam, azimuthDeg) ==
    /\ Called("getRangeAtAzimuth", <<sam, azimuthDeg>>,
              Returned(getRangeAtAzimuth(sam, azimuthDeg)))
    /\ UNCHANGED <<cachedITUData, ituLoadCompleted, radar, scenarioVars, controllerVars, manager>>

PlatformInit == NoScenario /\ ComponentIdle

PlatformNext ==
    \/ \E fighter \in QueriedFighters : \E distanceToSAM \in QueriedDistances :
       \E samMEMR \in QueriedMEMR : \E samTracking \in BOOLEAN :
          ShouldLaunchHARM(fighter, distanceToSAM, samMEMR, samTracking)
    \/ \E sam \in QueriedSites : \E azimuthDeg \in QueriedAzimuths :
          GetRangeAtAzimuth(sam, azimuthDeg)

PlatformSpec == PlatformInit /\ [][PlatformNext]_vars

(***************************************************************************)
(* C19: the launch decision of the fighter                                 *)
(***************************************************************************)
\* C19: shouldLaunchHARM(distanceToSAM, samMEMR, samTracking) returns true
\* iff samTracking is true and distanceToSAM <= samMEMR and the fighter's own
\* weapon range is strictly less than distanceToSAM, and returns the boolean
\* false for every other input.
C19_LaunchDecision ==
    [][lastCall'.op = "shouldLaunchHARM"
       => LET fighter       == lastCall'.args[1]
              distanceToSAM == lastCall'.args[2]
              samMEMR       == lastCall'.args[3]
              samTracking   == lastCall'.args[4]
          IN  /\ lastCall'.ok
              /\ lastCall'.value =
                    IF /\ samTracking
                       /\ distanceToSAM <= samMEMR
                       /\ fighter.harmRange < distanceToSAM
                    THEN "true" ELSE "false"]_vars

(***************************************************************************)
(* C20: the bucket a queried azimuth is answered from                      *)
(***************************************************************************)
\* Angular distance, in units of 1/n of a thousandth of a degree, between
\* the azimuth and the sampled azimuth (360 / n) * j of bucket j
BucketDistance(azimuthDeg, n, j) ==
    LET d == Abs(azimuthDeg * n - 360000 * j)
    IN  IF d <= 180000 * n THEN d ELSE 360000 * n - d

\* C20: for every azimuth in [0, 360), getRangeAtAzimuth returns the
\* precomputed range stored at bucket round(azimuth/360 * numAzimuths) mod
\* numAzimuths; that index is always a valid bucket in [0, numAzimuths) and is
\* the bucket whose sampled azimuth is nearest to the queried azimuth.
C20_NearestBucket ==
    [][lastCall'.op = "getRangeAtAzimuth"
       => LET sam        == lastCall'.args[1]
              azimuthDeg == lastCall'.args[2]
              n          == NumRanges(sam.ranges)
              index      == ((2 * azimuthDeg * n + 360000) \div 720000) % n
          IN  /\ index \in 0..(n - 1)
              /\ lastCall'.value = sam.ranges[index]
              /\ \A j \in 0..(n - 1) :
                    BucketDistance(azimuthDeg, n, index)
                       <= BucketDistance(azimuthDeg, n, j)]_vars

\* An azimuth just below 360 degrees has been answered from bucket 0 of a
\* site with several buckets, and an azimuth past the midpoint of buckets 0
\* and 1 of seven from bucket 1
C20_Witness ==
    /\ lastCall.op = "getRangeAtAzimuth"
    /\ \/ /\ NumRanges(lastCall.args[1].ranges) = 12
          /\ lastCall.args[2] = 359999
          /\ lastCall.value = lastCall.args[1].ranges[0]
       \/ /\ NumRanges(lastCall.args[1].ranges) = 7
          /\ lastCall.args[2] = 25715
          /\ lastCall.value = lastCall.args[1].ranges[1]

(***************************************************************************)
(* Further scenarios: a fighter close to the site, and a fighter that      *)
(* crosses the attenuated sector of the site                               *)
(***************************************************************************)
\* A site with fast interceptors (Mach 5.8, 5.5 km of range) and a stationary
\* fighter without weapons 2 km or 3 km from it, stepped by 1 s or 2 s
CloseInScenarios ==
    { [timeStep |-> dt,
       sams     |-> <<NewSAM(1, Origin, 55, 58, 20, UniformRanges(300), 6)>>,
       fighters |-> <<NewFighter(1, At(x, 0), 0, 0, 29, 0, 0)>>] :
          dt \in {10, 20}, x \in {20, 30} }

\* A fighter without weapons that flies west along y = 8 km, beyond the reach
\* of the interceptors: the site detects it at azimuth 57 degrees, loses it
\* in the attenuated sector from 60 to 120 degrees and detects it again
SectorCrossingScenarios ==
    { [timeStep |-> dt,
       sams     |-> <<NewSAM(1, Origin, 55, 58, 70, SectorRanges(300, 52), 6)>>,
       fighters |-> <<NewFighter(1, At(52, 80), 180, 6, 29, 0, 0)>>] :
          dt \in {10, 20} }

FurtherScenarios == CloseInScenarios \cup SectorCrossingScenarios

FurtherInit ==
    \E sc \in FurtherScenarios :
        /\ timeStep = sc.timeStep
        /\ timeElapsed = 0
        /\ scenarioSams = sc.sams
        /\ scenarioFighters = sc.fighters
        /\ missiles = <<>>
        /\ isEngagementComplete = FALSE
        /\ scenarioCreated = TRUE
        /\ scenarioMeta = sc
        /\ controllerPc = "idle"
        /\ lastResponse = [op |-> "none", key |-> "absent", status |-> 0]
        /\ ComponentIdle

FurtherSpec == FurtherInit /\ [][Next]_vars

(***************************************************************************)
(* C21: completion once reported stays reported                            *)
(***************************************************************************)
\* C21: once advance() has returned true on a coordinator, every later
\* advance() on the same coordinator also returns true and
\* isEngagementComplete stays true, also when the caller keeps stepping after
\* completion.
C21_CompleteIsStable ==
    [][isEngagementComplete => isEngagementComplete']_vars

(***************************************************************************)
(* C22: destroyed platforms neither launch nor are launched at             *)
(***************************************************************************)
\* C22: in any sequence of advance() steps, including steps taken after the
\* engagement is complete, no missile is spawned by a site or fighter whose
\* state is destroyed, and no missile is spawned targeting a platform that is
\* already destroyed.
C22_NoLaunchByOrAtDestroyed ==
    [][/\ \A i \in Sites :
            scenarioSams'[i].missilesRemaining < scenarioSams[i].missilesRemaining
            => scenarioSams[i].state # "destroyed"
       /\ \A j \in Fighters :
            scenarioFighters'[j].missilesRemaining < scenarioFighters[j].missilesRemaining
            => scenarioFighters[j].state # "destroyed"
       /\ \A k \in NewMissiles :
            IF missiles'[k].launchedBy = "sam"
            THEN scenarioFighters[missiles'[k].target].state # "destroyed"
            ELSE scenarioSams[missiles'[k].target].state # "destroyed"]_vars

(***************************************************************************)
(* C23: missiles without a track on their target                           *)
(***************************************************************************)
\* The launching side holds a track on the target of missile m: a site holds
\* a track on the targeted fighter (fighters hold no tracks on sites)
LaunchingSideTracks(m, sams, fighters) ==
    /\ m.launchedBy = "sam"
    /\ \E i \in 1..Len(sams) : HasTrack(sams[i], fighters[m.target].id)

\* 5 degrees in milliradians, rounded up
MaxPerturbation == 88

\* C23: in the guidance update, every active missile whose launching side
\* currently holds no track on the missile's target, whether site-launched or
\* aircraft-launched, is not steered toward the target in that step: its
\* heading changes only by a random perturbation of magnitude at most 5
\* degrees.
C23_UntrackedOnlyPerturbed ==
    [][\A k \in 1..Len(missiles) :
          (/\ missiles[k].status = "active"
           /\ ~LaunchingSideTracks(missiles[k], Launched.sams, Launched.fighters))
          => Abs(missiles'[k].heading - missiles[k].heading) <= MaxPerturbation]_vars

\* The same for the site-launched missiles alone
C23_SiteLaunchedOnlyPerturbed ==
    [][\A k \in 1..Len(missiles) :
          (/\ missiles[k].status = "active"
           /\ missiles[k].launchedBy = "sam"
           /\ ~LaunchingSideTracks(missiles[k], Launched.sams, Launched.fighters))
          => Abs(missiles'[k].heading - missiles[k].heading) <= MaxPerturbation]_vars

\* A site-launched missile that has been in flight for at least one full step
\* is active while no site holds a track on its target: the guidance update of
\* the last step found it without a track
C23_Witness ==
    \E k \in 1..Len(missiles) :
        /\ missiles[k].launchedBy = "sam"
        /\ missiles[k].status = "active"
        /\ missiles[k].timeOfLaunch < timeElapsed
        /\ ~LaunchingSideTracks(missiles[k], scenarioSams, scenarioFighters)

(***************************************************************************)
(* C24: the time-in-track of a Track                                       *)
(***************************************************************************)
\* C24: for every Track, after each tracking update its cumulative
\* time-in-track equals timeStep times the number of consecutive steps,
\* ending with the current one, in which the target was detected, which is
\* current time minus acquisition time plus one timeStep; a track re-created
\* after a drop restarts at one timeStep and does not resume its earlier total.
C24_TimeInTrack ==
    [][\A i \in Sites : \A j \in Fighters :
          HasTrack(scenarioSams'[i], scenarioFighters[j].id)
          => LET new == TrackOf(scenarioSams'[i], scenarioFighters[j].id)
             IN  /\ new.timeElapsedTracking
                       = timeElapsed' - new.acquisitionTime + timeStep
                 /\ IF HasTrack(scenarioSams[i], scenarioFighters[j].id)
                    THEN LET old == TrackOf(scenarioSams[i], scenarioFighters[j].id)
                         IN  /\ new.acquisitionTime = old.acquisitionTime
                             /\ new.timeElapsedTracking
                                   = old.timeElapsedTracking + timeStep
                    ELSE /\ new.acquisitionTime = timeElapsed'
                         /\ new.timeElapsedTracking = timeStep]_vars

\* A fighter that was detected in the first step is tracked again after a
\* drop: its track was acquired later than the first step, and has been
\* updated since
C24_Witness ==
    \E i \in Sites : \E j \in Fighters :
        /\ Distance(scenarioMeta.fighters[j].position, scenarioMeta.sams[i].position)
              <= TrackingDetectionRange(scenarioMeta.sams[i], scenarioMeta.fighters[j])
        /\ HasTrack(scenarioSams[i], scenarioFighters[j].id)
        /\ TrackOf(scenarioSams[i], scenarioFighters[j].id).acquisitionTime > timeStep
        /\ TrackOf(scenarioSams[i], scenarioFighters[j].id).timeElapsedTracking
              >= 3 * timeStep

(***************************************************************************)
(* C25: the inventories and the missile list                               *)
(***************************************************************************)
\* The total decrease of missilesRemaining from the platforms the scenario was
\* created with (initial) to the platforms as they are now (current)
RECURSIVE TotalDecrease(_, _, _)
TotalDecrease(initial, current, i) ==
    IF i > Len(initial) THEN 0
    ELSE (initial[i].missilesRemaining - current[i].missilesRemaining)
         + TotalDecrease(initial, current, i + 1)

LaunchedBy(side) == Cardinality({k \in 1..Len(missiles) : missiles[k].launchedBy = side})

\* C25: after any sequence of advance() steps, every site's remaining
\* interceptor count and every fighter's remaining weapon count is >= 0, and
\* the number of missiles in the list launched by each side equals the total
\* decrease of that side's remaining counts from their initial values.
C25_InventoryMatchesMissiles ==
    /\ \A i \in Sites : scenarioSams[i].missilesRemaining >= 0
    /\ \A j \in Fighters : scenarioFighters[j].missilesRemaining >= 0
    /\ LaunchedBy("sam") = TotalDecrease(scenarioMeta.sams, scenarioSams, 1)
    /\ LaunchedBy("fighter") = TotalDecrease(scenarioMeta.fighters, scenarioFighters, 1)

\* A fighter has launched both of its weapons and a site that started with
\* six interceptors has launched some of them
C25_Witness ==
    /\ \E j \in Fighters : /\ scenarioMeta.fighters[j].missilesRemaining = 2
                           /\ scenarioFighters[j].missilesRemaining = 0
    /\ \E i \in Sites : /\ scenarioMeta.sams[i].missilesRemaining = 6
                        /\ scenarioSams[i].missilesRemaining < 5
    /\ LaunchedBy("fighter") >= 2
    /\ LaunchedBy("sam") >= 2

(***************************************************************************)
(* C26: the spacing of a site's launches                                   *)
(***************************************************************************)
\* The interceptors site i launches in this step
C26_Launches(i) ==
    scenarioSams[i].missilesRemaining - scenarioSams'[i].missilesRemaining

\* C26: for every site, any two of its launches are at least
\* launchIntervalSec (5 s) of simulation time apart, counting the initial
\* last-launch time 0 as a launch; hence a site launches at most one missile
\* per step even when several tracked targets qualify, and never launches
\* before simulation time 5 s.
C26_LaunchSpacing ==
    [][/\ \A i \in Sites :
            /\ C26_Launches(i) \in {0, 1}
            /\ C26_Launches(i) = 1
               => /\ timeElapsed' - scenarioSams[i].lastLaunchTime >= 50
                  /\ timeElapsed' >= 50
                  /\ scenarioSams'[i].lastLaunchTime = timeElapsed'
            /\ C26_Launches(i) = 0
               => scenarioSams'[i].lastLaunchTime = scenarioSams[i].lastLaunchTime
       /\ Cardinality({k \in NewMissiles : missiles'[k].launchedBy = "sam"})
             = Cardinality({i \in Sites : C26_Launches(i) = 1})]_vars

\* A site that has launched before has just launched one interceptor while
\* two of its tracks passed the range and time-in-track tests and more
\* interceptors remained
C26_Witness ==
    \E i \in Sites :
        /\ scenarioSams[i].lastLaunchTime = timeElapsed
        /\ scenarioSams[i].missilesRemaining \in 1..4
        /\ Cardinality({k \in 1..Len(scenarioSams[i].trackedTargets) :
              /\ scenarioSams[i].trackedTargets[k].distance <= scenarioSams[i].memr
              /\ scenarioSams[i].trackedTargets[k].timeElapsedTracking
                    >= scenarioSams[i].autoAcquisitionTime}) >= 2
        /\ Cardinality({k \in 1..Len(missiles) :
              /\ missiles[k].launchedBy = "sam"
              /\ missiles[k].timeOfLaunch = timeElapsed
              /\ missiles[k].maxRange = scenarioSams[i].memr}) = 1

(***************************************************************************)
(* C27: resolved missiles are left alone                                   *)
(***************************************************************************)
\* C27: once a missile's status is kill or missed, its status, position,
\* heading and impact time are never changed by any later advance() step.
C27_ResolvedIsFrozen ==
    [][\A k \in 1..Len(missiles) :
          missiles[k].status \in {"kill", "missed"}
          => /\ missiles'[k].status = missiles[k].status
             /\ missiles'[k].position = missiles[k].position
             /\ missiles'[k].heading = missiles[k].heading
             /\ missiles'[k].timeOfImpact = missiles[k].timeOfImpact]_vars

\* Steps have been taken after a miss: a missile was marked missed at least
\* two steps ago
C27_Witness ==
    \E k \in 1..Len(missiles) :
        /\ missiles[k].status = "missed"
        /\ missiles[k].velocity * (timeElapsed - 2 * timeStep - missiles[k].timeOfLaunch)
              >= 10 * missiles[k].maxRange

ClockTimeSteps == {50, 80, 100, 160}

\* Turns of the run loop followed past ceil(600 / timeStep)
ClockOverrun == 3

\* ceil(MAX_SIMULATION_TIME / timeStep) for a time step of d deciseconds
RunLoopLimit(d) == (MAX_SIMULATION_TIME + d - 1) \div d

\* Scenario.create(scenario, timeStep) with no platform in range of another;
\* lastCall.value counts the calls of advanceSimulationTimeStep made so far
ClockInit ==
    \E d \in ClockTimeSteps :
        /\ timeStep = FLit(d, 10)
        /\ timeElapsed = FZero
        /\ scenarioSams = <<>>
        /\ scenarioFighters = <<>>
        /\ missiles = <<>>
        /\ isEngagementComplete = FALSE
        /\ scenarioCreated = TRUE
        /\ scenarioMeta = [timeStep |-> d, sams |-> <<>>, fighters |-> <<>>]
        /\ controllerPc = "running"
        /\ lastResponse = [op |-> "run", key |-> SimulationKey, status |-> 0]
        /\ cachedITUData = NoITUData
        /\ ituLoadCompleted = FALSE
        /\ radar = NoRadar
        /\ lastCall = [NoCall EXCEPT !.op = "advanceSimulationTimeStep"]
        /\ manager = NoManager

\* One turn of `while (!engagementComplete()) advanceSimulationTimeStep()`:
\* timeElapsed += timeStep, then isEngagementComplete = (timeElapsed >= 600)
AdvanceClock ==
    /\ controllerPc = "running"
    /\ ~isEngagementComplete
    /\ lastCall.value < RunLoopLimit(scenarioMeta.timeStep) + ClockOverrun
    /\ \E t \in {FAdd(timeElapsed, timeStep)} :
          /\ timeElapsed' = t
          /\ isEngagementComplete' = FLe(FLit(MAX_SIMULATION_TIME, 10), t)
    /\ lastCall' = [lastCall EXCEPT !.value = @ + 1]
    /\ UNCHANGED <<timeStep, scenarioSams, scenarioFighters, missiles, controllerVars,
                   cachedITUData, ituLoadCompleted, radar, manager>>

ClockNext == AdvanceClock

ClockSpec == ClockInit /\ [][ClockNext]_vars

(***************************************************************************)
(* C29: elapsed time and the length of the run loop                        *)
(***************************************************************************)
\* The elapsed time is exactly calls * timeStep
ElapsedIsMultiple ==
    FAligned(timeElapsed, [m |-> lastCall.value * timeStep.m, e |-> timeStep.e], -1).n = 0

\* The run loop has made at most ceil(600 / timeStep) calls
RunLengthWithinLimit == lastCall.value <= RunLoopLimit(scenarioMeta.timeStep)

\* C29: for timeStep > 0, after k calls of advanceSimulationTimeStep on a
\* fresh coordinator the elapsed time is exactly k * timeStep, and the run
\* loop (advance until engagementComplete) has made at most
\* ceil(600 / timeStep) calls.
C29_ElapsedAndRunLength ==
    lastCall.op = "advanceSimulationTimeStep"
    => /\ ElapsedIsMultiple
       /\ RunLengthWithinLimit

(***************************************************************************)
(* The frontend: SimulationManager stepping the backend over HTTP          *)
(*                                                                         *)
(* A step() call sends POST /api/simulation/step and continues when the    *)
(* response arrives. The interval timer of start() and the loop of         *)
(* runToCompletion() are the callers; requests are handled by the backend, *)
(* and responses reach the browser, in any order and after any delay.      *)
(***************************************************************************)
\* The interval timer fires only while fewer step() calls than this have
\* not returned
MaxInFlight == 2

\* SimulationManager.stop()
stop(m) == [m EXCEPT !.stepInterval = FALSE, !.isRunning = FALSE, !.isPaused = FALSE]

\* SimulationManager.start()
start(m) ==
    IF m.isRunning THEN m
    ELSE [m EXCEPT !.isRunning = TRUE, !.isPaused = FALSE, !.stepInterval = TRUE]

\* SimulationManager.setStepDelay(delay)
setStepDelay(m) == IF m.isRunning THEN start(stop(m)) ELSE m

\* SimulationManager.step() up to its await: the request is sent
sendStep(m, from) ==
    [m EXCEPT !.calls = Append(@, [from |-> from, phase |-> "sent",
                                   isComplete |-> FALSE])]

\* SimulationManager.step() after its await, for the call at index c
stepReturned(m, c) ==
    LET call == m.calls[c]
        rest == [m EXCEPT !.calls = SubSeq(@, 1, c - 1) \o SubSeq(@, c + 1, Len(@)),
                          !.loopPc = IF call.from = "loop" THEN "sleeping" ELSE @]
    IN  IF call.isComplete
        THEN [stop(rest) EXCEPT !.completeSeen = TRUE]
        ELSE rest

\* The step() calls whose request the backend has not handled yet
RequestsInFlight(m) == {c \in 1..Len(m.calls) : m.calls[c].phase = "sent"}

\* simulationManager.initialize(scenario, visualization): the backend has
\* created the scenario and answered the request for the range profile
ManagerInit ==
    \E sc \in ControllerScenarios :
        /\ timeStep = 5
        /\ timeElapsed = 0
        /\ scenarioSams = [sc.sams EXCEPT ![1] = getPrecipitationRanges(sc.sams[1], 10)]
        /\ scenarioFighters = sc.fighters
        /\ missiles = <<>>
        /\ isEngagementComplete = FALSE
        /\ scenarioCreated = TRUE
        /\ scenarioMeta = sc
        /\ controllerPc = "idle"
        /\ lastResponse = [op |-> "ranges", key |-> "absent", status |-> 200]
        /\ cachedITUData = NoITUData
        /\ ituLoadCompleted = FALSE
        /\ radar = NoRadar
        /\ lastCall = NoCall
        /\ manager = [NoManager EXCEPT !.simulationKey = SimulationKey]

BackendIdle ==
    UNCHANGED <<scenarioVars, controllerVars, cachedITUData, ituLoadCompleted, radar,
                lastCall>>

\* start(), when it does not return at once
ManagerStart ==
    /\ ~manager.isRunning
    /\ manager' = start(manager)
    /\ BackendIdle

\* The callback of setInterval: `if (!this.isPaused) await this.step()`
IntervalTick ==
    /\ manager.stepInterval
    /\ ~manager.isPaused
    /\ Len(manager.calls) < MaxInFlight
    /\ manager' = sendStep(manager, "interval")
    /\ BackendIdle

\* runToCompletion() up to the first await of its loop
RunToCompletion ==
    /\ manager.loopPc = "idle"
    /\ \E m \in {[stop(setStepDelay(manager)) EXCEPT !.isRunning = TRUE,
                                                     !.isPaused = FALSE]} :
          manager' = [sendStep(m, "loop") EXCEPT !.loopPc = "awaitStep"]
    /\ BackendIdle

\* The loop of runToCompletion() after its 50 ms sleep
LoopWake ==
    /\ manager.loopPc = "sleeping"
    /\ manager' = IF manager.isRunning /\ ~manager.isPaused
                  THEN [sendStep(manager, "loop") EXCEPT !.loopPc = "awaitStep"]
                  ELSE [manager EXCEPT !.loopPc = "idle"]
    /\ BackendIdle

\* The backend handles one of the step requests and answers it with
\* getSimulationState(), whose isComplete is scenario.engagementComplete()
BackendStep ==
    \E c \in RequestsInFlight(manager) :
        /\ HandleStep(manager.simulationKey)
        /\ manager' = [manager EXCEPT !.calls[c].phase = "answered",
                                      !.calls[c].isComplete = isEngagementComplete']
        /\ UNCHANGED <<cachedITUData, ituLoadCompleted, radar, lastCall>>

\* A response arrives and step() runs to its end
StepReturns ==
    /\ \E c \in 1..Len(manager.calls) :
          /\ manager.calls[c].phase = "answered"
          /\ manager' = stepReturned(manager, c)
    /\ BackendIdle

\* stop(), when there is something to stop
ManagerStop ==
    /\ manager.isRunning \/ manager.stepInterval \/ manager.isPaused
    /\ manager' = stop(manager)
    /\ BackendIdle

\* pause()
ManagerPause ==
    /\ ~manager.isPaused
    /\ manager' = [manager EXCEPT !.isPaused = TRUE]
    /\ BackendIdle

\* resume()
ManagerResume ==
    /\ ~manager.isRunning \/ manager.isPaused
    /\ manager' = IF ~manager.isRunning THEN start(manager)
                  ELSE [manager EXCEPT !.isPaused = FALSE]
    /\ BackendIdle

ManagerNext ==
    \/ ManagerStart
    \/ IntervalTick
    \/ RunToCompletion
    \/ LoopWake
    \/ BackendStep
    \/ StepReturns
    \/ ManagerStop
    \/ ManagerPause
    \/ ManagerResume

ManagerSpec == ManagerInit /\ [][ManagerNext]_vars

(***************************************************************************)
(* C30: one step request at a time, none after completion was seen         *)
(***************************************************************************)
\* At most one step request is in flight
OneRequestInFlight == Cardinality(RequestsInFlight(manager)) <= 1

\* C30: while the SimulationManager auto-steps or runs to completion, at
\* most one step request is in flight at a time, no step request is handled
\* by the backend after a response with isComplete has been processed, and
\* the backend coordinator is not advanced once the engagement is complete.
C30_OneStepAtATime ==
    [][/\ OneRequestInFlight'
       /\ timeElapsed' # timeElapsed
             => (~manager.completeSeen /\ ~isEngagementComplete)]_vars

====
